---- MODULE Spec2Model ----
(***************************************************************************)
(* term-video-transcoder: the security validators, the codec selector and  *)
(* the conversion command builder.                                         *)
(*                                                                         *)
(* A Go string is a sequence of one-character strings, so that the         *)
(* validators' character, length and grammar checks are computed and not   *)
(* assumed.  An error value is a verdict string; "ok" is the nil error.    *)
(***************************************************************************)
EXTENDS Integers, Sequences, FiniteSets, TLC

(***************************************************************************)
(* Bounds of the model.                                                    *)
(***************************************************************************)
\* Integers at or above IntCap are all represented by IntCap (see Atoi).
IntCap == 100000
\* Longest run of zeros opening a fraction among the framerate inputs.
MaxFracZeros == 16
\* Length of the free strings enumerated over a small alphabet.
MaxFree == 2
\* The diagnostic lines the encoder writes in one tracked run, at most.
MaxLines == 4
\* The lines the diagnostic pipe holds before a write to it blocks.
PipeCap == 2

(***************************************************************************)
(* Characters and string helpers (package strings, package path/filepath). *)
(***************************************************************************)
\* The backtick character: a backtick inside a string literal opens a quoted
\* region for the parser, so the character is written as this atom.
Backtick == "backtick"

Digits == {"0", "1", "2", "3", "4", "5", "6", "7", "8", "9"}

DigitVal(c) ==
    CASE c = "0" -> 0 [] c = "1" -> 1 [] c = "2" -> 2 [] c = "3" -> 3
      [] c = "4" -> 4 [] c = "5" -> 5 [] c = "6" -> 6 [] c = "7" -> 7
      [] c = "8" -> 8 [] c = "9" -> 9

Chars(s) == {s[i] : i \in 1..Len(s)}

\* strings.Contains(s, sub)
Contains(s, sub) ==
    \E i \in 0..(Len(s) - Len(sub)) :
        \A j \in 1..Len(sub) : s[i + j] = sub[j]

ContainsAnyChar(s, set) == Chars(s) \cap set # {}

AllDigits(s) == Len(s) > 0 /\ \A i \in 1..Len(s) : s[i] \in Digits

Count(s, c) == Cardinality({i \in 1..Len(s) : s[i] = c})

IndexOf(s, c) ==
    IF c \in Chars(s) THEN CHOOSE i \in 1..Len(s) : s[i] = c /\ \A j \in 1..(i - 1) : s[j] # c
    ELSE 0

LastIndexOf(s, c) ==
    IF c \in Chars(s) THEN CHOOSE i \in 1..Len(s) : s[i] = c /\ \A j \in (i + 1)..Len(s) : s[j] # c
    ELSE 0

Repeat(c, n) == [i \in 1..n |-> c]

UpperLetters == <<"A","B","C","D","E","F","G","H","I","J","K","L","M",
                  "N","O","P","Q","R","S","T","U","V","W","X","Y","Z">>
LowerLetters == <<"a","b","c","d","e","f","g","h","i","j","k","l","m",
                  "n","o","p","q","r","s","t","u","v","w","x","y","z">>

LowerChar(c) ==
    IF \E i \in 1..26 : UpperLetters[i] = c
    THEN LowerLetters[CHOOSE i \in 1..26 : UpperLetters[i] = c]
    ELSE c

\* strings.ToLower(s)
ToLower(s) == [i \in 1..Len(s) |-> LowerChar(s[i])]

\* The digits d without their leading zeros.
StripZeros(d) ==
    LET nz == {i \in 1..Len(d) : d[i] # "0"}
    IN IF nz = {} THEN <<>>
       ELSE SubSeq(d, CHOOSE i \in nz : \A j \in nz : i <= j, Len(d))

\* Atoi with the bug of wrapping around on overflow (here at 16 bits) instead
\* of saturating.
RECURSIVE AtoiWrapFrom(_, _, _)
AtoiWrapFrom(s, i, acc) ==
    IF i > Len(s) THEN acc
    ELSE AtoiWrapFrom(s, i + 1, (acc * 10 + DigitVal(s[i])) % 65536)

AtoiWrap(s) == AtoiWrapFrom(StripZeros(s), 1, 0)

\* strconv.Atoi on a string of digits.  Go returns the exact value, or the
\* largest int (with an error the callers drop) when the value does not fit:
\* min(value, 2^63 - 1).  The model returns min(value, IntCap): every number
\* the code compares the result with lies below IntCap.  Leading zeros add
\* nothing to the value and are skipped; the scan stops once the cap is hit.
RECURSIVE AtoiFrom(_, _, _)
AtoiFrom(s, i, acc) ==
    IF i > Len(s) THEN acc
    ELSE IF acc * 10 + DigitVal(s[i]) >= IntCap THEN IntCap
    ELSE AtoiFrom(s, i + 1, acc * 10 + DigitVal(s[i]))

Atoi(s) == AtoiFrom(StripZeros(s), 1, 0)

\* strings.Split(s, sep) for a one-character separator.
RECURSIVE SplitFrom(_, _, _)
SplitFrom(s, sep, out) ==
    LET i == IndexOf(s, sep)
    IN IF i = 0 THEN Append(out, s)
       ELSE SplitFrom(SubSeq(s, i + 1, Len(s)), sep, Append(out, SubSeq(s, 1, i - 1)))

Split(s, sep) == SplitFrom(s, sep, <<>>)

RECURSIVE JoinFrom(_, _, _)
JoinFrom(segs, sep, i) ==
    IF i > Len(segs) THEN <<>>
    ELSE IF i = Len(segs) THEN segs[i]
    ELSE segs[i] \o <<sep>> \o JoinFrom(segs, sep, i + 1)

Join(segs, sep) == JoinFrom(segs, sep, 1)

DotDot == <<".", ".">>

\* filepath.Clean (Unix separator), element by element: out holds the elements
\* kept so far and dd the number of leading ".." elements that cannot be
\* backtracked over.
RECURSIVE CleanSegs(_, _, _, _, _)
CleanSegs(segs, i, out, dd, rooted) ==
    IF i > Len(segs) THEN out
    ELSE IF segs[i] = <<>> \/ segs[i] = <<".">>
         THEN CleanSegs(segs, i + 1, out, dd, rooted)
    ELSE IF segs[i] = DotDot
         THEN IF Len(out) > dd
              THEN CleanSegs(segs, i + 1, SubSeq(out, 1, Len(out) - 1), dd, rooted)
              ELSE IF ~rooted
                   THEN CleanSegs(segs, i + 1, Append(out, DotDot), dd + 1, rooted)
                   ELSE CleanSegs(segs, i + 1, out, dd, rooted)
    ELSE CleanSegs(segs, i + 1, Append(out, segs[i]), dd, rooted)

Clean(path) ==
    IF path = <<>> THEN <<".">>
    ELSE LET rooted == path[1] = "/"
             out == CleanSegs(Split(path, "/"), 1, <<>>, 0, rooted)
         IN IF rooted THEN <<"/">> \o Join(out, "/")
            ELSE IF out = <<>> THEN <<".">> ELSE Join(out, "/")

\* filepath.Ext: the suffix from the last dot of the last path element.
Ext(path) ==
    LET slash == LastIndexOf(path, "/")
        dot == LastIndexOf(path, ".")
    IN IF dot > slash THEN SubSeq(path, dot, Len(path)) ELSE <<>>

(***************************************************************************)
(* strconv.ParseFloat on a string of the framerate grammar.  The float64   *)
(* result is held as an order code: F64(n) is the float that equals the    *)
(* integer n, F64(n) + 1 any float strictly between n and n + 1.  Rounding *)
(* to nearest, ties to even, is computed in the binade [64, 128) that      *)
(* holds the framerate limit: there a float is 2^-46 from the next, so a   *)
(* fraction of at most 2^-47 rounds down to the integer and a fraction of  *)
(* at least 1 - 2^-47 rounds up to the next one.  A value of at most 50    *)
(* characters that is not zero never rounds to zero.                       *)
(***************************************************************************)
F64(n) == 2 * n

\* The decimal digits of 2^-47 and of 1 - 2^-47 after the point.
HalfUlpDigits ==
    <<"0","0","0","0","0","0","0","0","0","0","0","0","0","0","7","1","0","5",
      "4","2","7","3","5","7","6","0","1","0","0","1","8","5","8","7","1","1",
      "2","4","2","6","7","5","7","8","1","2","5">>
OneLessHalfUlpDigits ==
    <<"9","9","9","9","9","9","9","9","9","9","9","9","9","9","2","8","9","4",
      "5","7","2","6","4","2","3","9","8","9","9","8","1","4","1","2","8","8",
      "7","5","7","3","2","4","2","1","8","7","5">>

FracDigit(f, i) == IF i <= Len(f) THEN DigitVal(f[i]) ELSE 0

\* -1, 0, 1 as the fraction 0.a is below, equal to or above the fraction 0.b
FracCmp(a, b) ==
    LET n == IF Len(a) > Len(b) THEN Len(a) ELSE Len(b)
        diff == {i \in 1..n : FracDigit(a, i) # FracDigit(b, i)}
    IN IF diff = {} THEN 0
       ELSE LET k == CHOOSE i \in diff : \A j \in diff : i <= j
            IN IF FracDigit(a, k) < FracDigit(b, k) THEN -1 ELSE 1

FracIsZero(f) == \A i \in 1..Len(f) : f[i] = "0"

ParseFloat(s) ==
    LET dot == IndexOf(s, ".")
        ip == Atoi(IF dot = 0 THEN s ELSE SubSeq(s, 1, dot - 1))
        fr == IF dot = 0 THEN <<>> ELSE SubSeq(s, dot + 1, Len(s))
    IN IF FracIsZero(fr) THEN F64(ip)
       ELSE IF ip \in 64..127 /\ FracCmp(fr, HalfUlpDigits) <= 0 THEN F64(ip)
       ELSE IF ip \in 64..127 /\ FracCmp(fr, OneLessHalfUlpDigits) >= 0 THEN F64(ip + 1)
       ELSE F64(ip) + 1

(***************************************************************************)
(* internal/security/validation.go                                         *)
(***************************************************************************)
S_copy == <<"c","o","p","y">>
S_libx264 == <<"l","i","b","x","2","6","4">>
S_libx265 == <<"l","i","b","x","2","6","5">>
S_libvpx_vp9 == <<"l","i","b","v","p","x","-","v","p","9">>
S_libvpx == <<"l","i","b","v","p","x">>
S_aac == <<"a","a","c">>
S_libopus == <<"l","i","b","o","p","u","s">>
S_libmp3lame == <<"l","i","b","m","p","3","l","a","m","e">>
S_libvorbis == <<"l","i","b","v","o","r","b","i","s">>
S_flac == <<"f","l","a","c">>
S_pcm_s16le == <<"p","c","m","_","s","1","6","l","e">>
S_mp4 == <<"m","p","4">>
S_avi == <<"a","v","i">>
S_mkv == <<"m","k","v">>
S_webm == <<"w","e","b","m">>
S_mov == <<"m","o","v">>
S_mp3 == <<"m","p","3">>
S_wav == <<"w","a","v">>
S_ogg == <<"o","g","g">>
S_m4a == <<"m","4","a">>

AllowedVideoCodecs == {S_libx264, S_libx265, S_libvpx_vp9, S_libvpx, S_copy}
AllowedAudioCodecs ==
    {S_aac, S_libopus, S_libmp3lame, S_libvorbis, S_flac, S_pcm_s16le, S_copy}
AllowedFormats ==
    {S_mp4, S_avi, S_mkv, S_webm, S_mov, S_mp3, S_wav, S_aac, S_flac, S_ogg, S_m4a}
MaxPathLength == 255
MaxParameterLength == 50

DangerousChars ==
    {";", "&", "|", Backtick, "$", "(", ")", "{", "}", "[", "]",
     "<", ">", "\\", "\"", "'", "\n", "\r", "\t"}
PathDangerousChars == {";", "&", "|", Backtick, "$", "\"", "'", "\n", "\r", "\t"}

containsDangerousChars(input) == ContainsAnyChar(input, DangerousChars)
\* containsPathDangerousChars with the bug of a deny-list without the semicolon.
containsPathDangerousCharsNoSemicolon(path) ==
    ContainsAnyChar(path, PathDangerousChars \ {";"})


containsPathDangerousChars(path) == ContainsAnyChar(path, PathDangerousChars)
\* ValidateCodec with the bug of trimming blanks before the whitelist lookup.
TrimSpace(s) ==
    LET keep == {i \in 1..Len(s) : s[i] # " "}
    IN IF keep = {} THEN <<>>
       ELSE SubSeq(s, CHOOSE i \in keep : \A j \in keep : i <= j,
                      CHOOSE i \in keep : \A j \in keep : i >= j)

ValidateCodecTrimmed(codec, codecType) ==
    IF Len(codec) > MaxParameterLength THEN "too_long"
    ELSE IF containsDangerousChars(codec) THEN "invalid_chars"
    ELSE IF codecType \notin {"video", "audio"} THEN "unknown_type"
    ELSE IF TrimSpace(codec) \notin (IF codecType = "video" THEN AllowedVideoCodecs
                                     ELSE AllowedAudioCodecs) THEN "not_allowed"
    ELSE "ok"


ValidateCodec(codec, codecType) ==
    IF Len(codec) > MaxParameterLength THEN "too_long"
    ELSE IF containsDangerousChars(codec) THEN "invalid_chars"
    ELSE IF codecType \notin {"video", "audio"} THEN "unknown_type"
    ELSE IF codec \notin (IF codecType = "video" THEN AllowedVideoCodecs
                          ELSE AllowedAudioCodecs) THEN "not_allowed"
    ELSE "ok"

\* ^[0-9]+(\.[0-9]+)?$
DecimalRegex(s) ==
    LET dot == IndexOf(s, ".")
    IN IF dot = 0 THEN AllDigits(s)
       ELSE /\ AllDigits(SubSeq(s, 1, dot - 1))
            /\ AllDigits(SubSeq(s, dot + 1, Len(s)))

\* ^[0-9]+(\.[0-9]+)?[kKmM]?$
bitrateRegex(s) ==
    \/ DecimalRegex(s)
    \/ /\ Len(s) > 0
       /\ s[Len(s)] \in {"k", "K", "m", "M"}
       /\ DecimalRegex(SubSeq(s, 1, Len(s) - 1))

\* ^[0-9]+x[0-9]+$
resolutionRegex(s) ==
    LET x == IndexOf(s, "x")
    IN /\ x # 0
       /\ AllDigits(SubSeq(s, 1, x - 1))
       /\ AllDigits(SubSeq(s, x + 1, Len(s)))

framerateRegex(s) == DecimalRegex(s)

ValidateBitrate(bitrate) ==
    IF bitrate = <<>> THEN "ok"
    ELSE IF Len(bitrate) > MaxParameterLength THEN "too_long"
    ELSE IF containsDangerousChars(bitrate) THEN "invalid_chars"
    ELSE IF ~bitrateRegex(bitrate) THEN "bad_format"
    ELSE "ok"

ValidateResolution(resolution) ==
    IF resolution = <<>> THEN "ok"
    ELSE IF Len(resolution) > MaxParameterLength THEN "too_long"
    ELSE IF containsDangerousChars(resolution) THEN "invalid_chars"
    ELSE IF ~resolutionRegex(resolution) THEN "bad_format"
    ELSE LET parts == Split(resolution, "x")
             width == Atoi(parts[1])
             height == Atoi(parts[2])
         IN IF width > 7680 \/ height > 4320 THEN "too_large"
            ELSE IF width < 1 \/ height < 1 THEN "too_small"
            ELSE "ok"
\* ValidateFramerate with the bug of a lower limit that lets zero through.
ValidateFramerateZeroAllowed(framerate) ==
    IF framerate = <<>> THEN "ok"
    ELSE IF Len(framerate) > MaxParameterLength THEN "too_long"
    ELSE IF containsDangerousChars(framerate) THEN "invalid_chars"
    ELSE IF ~framerateRegex(framerate) THEN "bad_format"
    ELSE LET fps == ParseFloat(framerate)
         IN IF fps > F64(120) \/ fps < F64(0) THEN "out_of_range"
            ELSE "ok"

\* strconv.ParseFloat returns no error on a string of the framerate grammar
\* of at most 50 characters, so the err != nil branch is never taken.
ValidateFramerate(framerate) ==
    IF framerate = <<>> THEN "ok"
    ELSE IF Len(framerate) > MaxParameterLength THEN "too_long"
    ELSE IF containsDangerousChars(framerate) THEN "invalid_chars"
    ELSE IF ~framerateRegex(framerate) THEN "bad_format"
    ELSE LET fps == ParseFloat(framerate)
         IN IF fps > F64(120) \/ fps <= F64(0) THEN "out_of_range"
            ELSE "ok"

ValidateFilePath(path) ==
    IF Len(path) > MaxPathLength THEN "too_long"
    ELSE LET cleanPath == Clean(path)
         IN IF Contains(cleanPath, DotDot) THEN "traversal"
            ELSE IF containsPathDangerousChars(path) THEN "invalid_chars"
            ELSE "ok"

ValidateFileFormat(path) ==
    LET e == ToLower(Ext(path))
        ext == IF Len(e) > 1 THEN SubSeq(e, 2, Len(e)) ELSE e
    IN IF ext \notin AllowedFormats THEN "format_not_allowed" ELSE "ok"

(***************************************************************************)
(* internal/transcoder/transcoder.go: the codec selector.  The verbose     *)
(* flag only adds printing and is left out.                                *)
(***************************************************************************)
S_h264 == <<"h","2","6","4">>
S_hevc == <<"h","e","v","c">>
S_vp8 == <<"v","p","8">>
S_vp9 == <<"v","p","9">>
S_av1 == <<"a","v","1">>
S_xvid == <<"x","v","i","d">>
S_divx == <<"d","i","v","x">>
S_vorbis == <<"v","o","r","b","i","s">>
S_opus == <<"o","p","u","s">>
S_ac3 == <<"a","c","3">>

SupportedFormats == {S_mp4, S_avi, S_mkv, S_webm, S_mov}

\* CustomParameters{}
EmptyParams ==
    [VideoCodec |-> <<>>, AudioCodec |-> <<>>, VideoBitrate |-> <<>>,
     AudioBitrate |-> <<>>, Resolution |-> <<>>, Framerate |-> <<>>]

getDefaultCodecs(format) ==
    IF format \in {S_mp4, S_mov} THEN <<S_libx264, S_aac>>
    ELSE IF format = S_webm THEN <<S_libvpx_vp9, S_libopus>>
    ELSE IF format = S_mkv THEN <<S_libx264, S_aac>>
    ELSE IF format = S_avi THEN <<S_libx264, S_libmp3lame>>
    ELSE <<S_libx264, S_aac>>

isCompatibleCodec(codec, compatibleCodecs) ==
    \E compatible \in compatibleCodecs : Contains(ToLower(codec), compatible)

canUseStreamCopy(inputInfo, outputFormat) ==
    IF Len(inputInfo.VideoStreams) = 0 \/ Len(inputInfo.AudioStreams) = 0 THEN FALSE
    ELSE LET videoCodec == inputInfo.VideoStreams[1].Codec
             audioCodec == inputInfo.AudioStreams[1].Codec
         IN IF outputFormat \in {S_mp4, S_mov}
            THEN isCompatibleCodec(videoCodec, {S_h264, S_hevc})
                 /\ isCompatibleCodec(audioCodec, {S_aac, S_mp3})
            ELSE IF outputFormat = S_webm
            THEN isCompatibleCodec(videoCodec, {S_vp8, S_vp9, S_av1})
                 /\ isCompatibleCodec(audioCodec, {S_vorbis, S_opus})
            ELSE IF outputFormat = S_mkv THEN TRUE
            ELSE IF outputFormat = S_avi
            THEN isCompatibleCodec(videoCodec, {S_h264, S_xvid, S_divx})
                 /\ isCompatibleCodec(audioCodec, {S_mp3, S_ac3})
            ELSE FALSE

applyVideoPreset(baseCodec, preset) ==
    IF baseCodec \in {S_libx264, S_libx265, S_libvpx_vp9, S_copy} THEN baseCodec
    ELSE S_libx264

applyAudioPreset(baseCodec, preset) ==
    IF baseCodec \in {S_aac, S_libopus, S_libmp3lame, S_libvorbis, S_flac, S_copy}
    THEN baseCodec
    ELSE S_aac

\* selectCodecs with the bug of taking the copy path although the preset
\* was requested explicitly.
selectCodecsIgnoringExplicit(inputInfo, outputFormat, preset, presetExplicit) ==
    LET def == getDefaultCodecs(outputFormat)
    IN IF canUseStreamCopy(inputInfo, outputFormat)
       THEN <<S_copy, S_copy, TRUE>>
       ELSE <<applyVideoPreset(def[1], preset), applyAudioPreset(def[2], preset), FALSE>>

\* selectCodecs with the bug of reporting stream copy = false on the copy path.
selectCodecsFlagDropped(inputInfo, outputFormat, preset, presetExplicit) ==
    LET def == getDefaultCodecs(outputFormat)
    IN IF canUseStreamCopy(inputInfo, outputFormat) /\ ~presetExplicit
       THEN <<S_copy, S_copy, FALSE>>
       ELSE <<applyVideoPreset(def[1], preset), applyAudioPreset(def[2], preset), FALSE>>

selectCodecs(inputInfo, outputFormat, preset, presetExplicit) ==
    LET def == getDefaultCodecs(outputFormat)
    IN IF canUseStreamCopy(inputInfo, outputFormat) /\ ~presetExplicit
       THEN <<S_copy, S_copy, TRUE>>
       ELSE <<applyVideoPreset(def[1], preset), applyAudioPreset(def[2], preset), FALSE>>

\* selectCodecsWithCustomParamsSecure with the bug of trying stream copy
\* although a custom parameter is set.
selectCodecsCopyDespiteParams(inputInfo, outputFormat, preset, presetExplicit, customParamsSet, customParams) ==
    IF customParams.VideoCodec # <<>> /\ customParams.AudioCodec # <<>>
    THEN <<customParams.VideoCodec, customParams.AudioCodec, FALSE>>
    ELSE selectCodecs(inputInfo, outputFormat, preset, presetExplicit)

selectCodecsWithCustomParamsSecure(inputInfo, outputFormat, preset, presetExplicit, customParamsSet, customParams) ==
    IF customParams.VideoCodec # <<>> /\ customParams.AudioCodec # <<>>
    THEN <<customParams.VideoCodec, customParams.AudioCodec, FALSE>>
    ELSE IF customParamsSet
    THEN LET videoCodec == IF customParams.VideoCodec = <<>>
                           THEN getDefaultCodecs(outputFormat)[1]
                           ELSE customParams.VideoCodec
             audioCodec == IF customParams.AudioCodec = <<>>
                           THEN getDefaultCodecs(outputFormat)[2]
                           ELSE customParams.AudioCodec
         IN <<applyVideoPreset(videoCodec, preset),
              applyAudioPreset(audioCodec, preset), FALSE>>
    ELSE selectCodecs(inputInfo, outputFormat, preset, presetExplicit)

getPresetVideoBitrate(preset) ==
    IF preset = "low" THEN <<"1","M">>
    ELSE IF preset = "medium" THEN <<"2","M">>
    ELSE IF preset = "high" THEN <<"4","M">>
    ELSE <<"2","M">>

\* getPresetAudioBitrate with a unit the bitrate grammar does not know.
getPresetAudioBitrateKbps(preset) ==
    IF preset = "low" THEN <<"1","2","8","k","b","p","s">>
    ELSE <<"1","9","2","k","b","p","s">>

getPresetAudioBitrate(preset) ==
    IF preset = "low" THEN <<"1","2","8","k">>
    ELSE IF preset = "medium" THEN <<"1","9","2","k">>
    ELSE IF preset = "high" THEN <<"2","5","6","k">>
    ELSE <<"1","9","2","k">>

\* getFormatFromPath
getFormatFromPath(path) ==
    LET ext == Ext(path)
    IN IF Len(ext) > 1 THEN ToLower(SubSeq(ext, 2, Len(ext))) ELSE <<>>

(***************************************************************************)
(* The command builder.  A command is its argument vector, a sequence of   *)
(* strings; NoCommand is the nil *exec.Cmd.                                *)
(***************************************************************************)
NoCommand == <<>>

A_ffmpeg == <<"f","f","m","p","e","g">>
A_i == <<"-","i">>
A_cv == <<"-","c",":","v">>
A_bv == <<"-","b",":","v">>
A_ca == <<"-","c",":","a">>
A_ba == <<"-","b",":","a">>
A_s == <<"-","s">>
A_r == <<"-","r">>
A_y == <<"-","y">>
A_stats_period == <<"-","s","t","a","t","s","_","p","e","r","i","o","d">>
A_stats_value == <<"0",".","2">>

\* Each part of the builder yields the arguments it appends, or fails.
Part(args) == [ok |-> TRUE, args |-> args]
PartFailed == [ok |-> FALSE, args |-> <<>>]

\* videoCodecArgs with the bug of inserting the codec unchecked.
videoCodecArgsUnchecked(videoCodec, customParams) ==
    IF videoCodec = S_copy THEN Part(<<A_cv, S_copy>>)
    ELSE IF customParams.VideoBitrate # <<>>
    THEN IF ValidateBitrate(customParams.VideoBitrate) # "ok" THEN PartFailed
         ELSE Part(<<A_cv, videoCodec, A_bv, customParams.VideoBitrate>>)
    ELSE Part(<<A_cv, videoCodec>>)

videoCodecArgs(videoCodec, customParams) ==
    IF videoCodec = S_copy THEN Part(<<A_cv, S_copy>>)
    ELSE IF ValidateCodec(videoCodec, "video") # "ok" THEN PartFailed
    ELSE IF customParams.VideoBitrate # <<>>
    THEN IF ValidateBitrate(customParams.VideoBitrate) # "ok" THEN PartFailed
         ELSE Part(<<A_cv, videoCodec, A_bv, customParams.VideoBitrate>>)
    ELSE Part(<<A_cv, videoCodec>>)

audioCodecArgs(audioCodec, customParams) ==
    IF audioCodec = S_copy THEN Part(<<A_ca, S_copy>>)
    ELSE IF ValidateCodec(audioCodec, "audio") # "ok" THEN PartFailed
    ELSE IF customParams.AudioBitrate # <<>>
    THEN IF ValidateBitrate(customParams.AudioBitrate) # "ok" THEN PartFailed
         ELSE Part(<<A_ca, audioCodec, A_ba, customParams.AudioBitrate>>)
    ELSE Part(<<A_ca, audioCodec>>)

\* resolutionArgs with the bug of inserting the resolution unchecked.
resolutionArgsUnchecked(customParams) ==
    IF customParams.Resolution # <<>> THEN Part(<<A_s, customParams.Resolution>>)
    ELSE Part(<<>>)

resolutionArgs(customParams) ==
    IF customParams.Resolution # <<>>
    THEN IF ValidateResolution(customParams.Resolution) # "ok" THEN PartFailed
         ELSE Part(<<A_s, customParams.Resolution>>)
    ELSE Part(<<>>)

\* framerateArgs with the bug of inserting the framerate unchecked.
framerateArgsUnchecked(customParams) ==
    IF customParams.Framerate # <<>> THEN Part(<<A_r, customParams.Framerate>>)
    ELSE Part(<<>>)

framerateArgs(customParams) ==
    IF customParams.Framerate # <<>>
    THEN IF ValidateFramerate(customParams.Framerate) # "ok" THEN PartFailed
         ELSE Part(<<A_r, customParams.Framerate>>)
    ELSE Part(<<>>)

\* buildFFmpegCommandWithCustomParams with the bug of appending the framerate
\* before the resolution.
buildFFmpegCommandFramerateFirst(input, output, videoCodec, audioCodec, preset, customParams) ==
    IF ValidateFilePath(input) # "ok" THEN NoCommand
    ELSE IF ValidateFilePath(output) # "ok" THEN NoCommand
    ELSE LET v == videoCodecArgs(videoCodec, customParams)
             a == audioCodecArgs(audioCodec, customParams)
             s == resolutionArgs(customParams)
             r == framerateArgs(customParams)
         IN IF ~v.ok \/ ~a.ok \/ ~s.ok \/ ~r.ok THEN NoCommand
            ELSE <<A_ffmpeg, A_i, input>> \o v.args \o a.args \o r.args \o s.args
                 \o <<A_y, output>>

buildFFmpegCommandWithCustomParams(input, output, videoCodec, audioCodec, preset, customParams) ==
    IF ValidateFilePath(input) # "ok" THEN NoCommand
    ELSE IF ValidateFilePath(output) # "ok" THEN NoCommand
    ELSE LET v == videoCodecArgs(videoCodec, customParams)
             a == audioCodecArgs(audioCodec, customParams)
             s == resolutionArgs(customParams)
             r == framerateArgs(customParams)
         IN IF ~v.ok THEN NoCommand
            ELSE IF ~a.ok THEN NoCommand
            ELSE IF ~s.ok THEN NoCommand
            ELSE IF ~r.ok THEN NoCommand
            ELSE <<A_ffmpeg, A_i, input>> \o v.args \o a.args \o s.args \o r.args
                 \o <<A_y, output>>

\* ConvertVideoWithCustomParams, steps 1 to 4: the verdict of the first check
\* that fails, "ok" when all pass.  exists is what os.Stat finds.
validateConversion(inputPath, outputPath, customParamsSet, customParams, exists) ==
    IF ~exists THEN "input_missing"
    ELSE IF getFormatFromPath(outputPath) \notin SupportedFormats THEN "unsupported_format"
    ELSE IF ValidateFilePath(inputPath) # "ok" THEN "security_input_path"
    ELSE IF ValidateFilePath(outputPath) # "ok" THEN "security_output_path"
    ELSE IF ValidateFileFormat(outputPath) # "ok" THEN "security_output_format"
    ELSE IF ~customParamsSet THEN "ok"
    ELSE IF customParams.VideoCodec # <<>>
            /\ ValidateCodec(customParams.VideoCodec, "video") # "ok"
    THEN "security_video_codec"
    ELSE IF customParams.AudioCodec # <<>>
            /\ ValidateCodec(customParams.AudioCodec, "audio") # "ok"
    THEN "security_audio_codec"
    ELSE IF ValidateBitrate(customParams.VideoBitrate) # "ok" THEN "security_video_bitrate"
    ELSE IF ValidateBitrate(customParams.AudioBitrate) # "ok" THEN "security_audio_bitrate"
    ELSE IF ValidateResolution(customParams.Resolution) # "ok" THEN "security_resolution"
    ELSE IF ValidateFramerate(customParams.Framerate) # "ok" THEN "security_framerate"
    ELSE "ok"

\* ConvertVideoWithCustomParams, step 7: the preset bitrates where no custom
\* bitrate stands.
\* presetBitrates with the preset bitrates put in place of the custom ones.
presetBitratesAlways(preset, customParamsSet, customParams) ==
    [customParams EXCEPT
        !.VideoBitrate = getPresetVideoBitrate(preset),
        !.AudioBitrate = getPresetAudioBitrate(preset)]

presetBitrates(preset, customParamsSet, customParams) ==
    [customParams EXCEPT
        !.VideoBitrate = IF ~customParamsSet \/ customParams.VideoBitrate = <<>>
                         THEN getPresetVideoBitrate(preset) ELSE @,
        !.AudioBitrate = IF ~customParamsSet \/ customParams.AudioBitrate = <<>>
                         THEN getPresetAudioBitrate(preset) ELSE @]

(***************************************************************************)
(* internal/transcoder/transcoder.go: audio extraction.  params is the     *)
(* AudioExtractionParams value; strings are sequences of characters.       *)
(***************************************************************************)
A_vn == <<"-","v","n">>
A_ar == <<"-","a","r">>
A_ac == <<"-","a","c">>
A_qa == <<"-","q",":","a">>
A_compression_level ==
    <<"-","c","o","m","p","r","e","s","s","i","o","n","_","l","e","v","e","l">>

S_low == <<"l","o","w">>
S_medium == <<"m","e","d","i","u","m">>
S_high == <<"h","i","g","h">>

\* The characters validateSampleRate and validateChannels look for.
SampleDangerousChars == {";", "|", "&", Backtick, "$", "<", ">", "\"", "'"}

ValidSampleRates ==
    {<<"8","0","0","0">>, <<"1","1","0","2","5">>, <<"1","6","0","0","0">>,
     <<"2","2","0","5","0">>, <<"4","4","1","0","0">>, <<"4","8","0","0","0">>,
     <<"8","8","2","0","0">>, <<"9","6","0","0","0">>}

ValidChannels == {<<"1">>, <<"2">>, <<"6">>, <<"8">>}

validateSampleRate(sampleRate) ==
    IF sampleRate = <<>> THEN "ok"
    ELSE IF ContainsAnyChar(sampleRate, SampleDangerousChars) THEN "invalid_characters"
    ELSE IF sampleRate \notin ValidSampleRates THEN "invalid_sample_rate"
    ELSE "ok"

validateChannels(channels) ==
    IF channels = <<>> THEN "ok"
    ELSE IF ContainsAnyChar(channels, SampleDangerousChars) THEN "invalid_characters"
    ELSE IF channels \notin ValidChannels THEN "invalid_channels"
    ELSE "ok"

validateAudioExtractionPaths(params) ==
    IF ValidateFilePath(params.InputFile) # "ok" THEN "security_input_path"
    ELSE IF ValidateFilePath(params.OutputFile) # "ok" THEN "security_output_path"
    ELSE IF ValidateFileFormat(params.OutputFile) # "ok" THEN "security_output_format"
    ELSE "ok"

validateAudioExtractionAudioParams(params) ==
    IF params.Codec # <<>> /\ ValidateCodec(params.Codec, "audio") # "ok"
    THEN "security_audio_codec"
    ELSE IF ValidateBitrate(params.Bitrate) # "ok" THEN "security_bitrate"
    ELSE IF params.SampleRate # <<>> /\ validateSampleRate(params.SampleRate) # "ok"
    THEN "invalid_sample_rate"
    ELSE IF params.Channels # <<>> /\ validateChannels(params.Channels) # "ok"
    THEN "invalid_channels"
    ELSE "ok"

\* exists is what os.Stat finds for the input file.
validateAudioExtractionParams(params, exists) ==
    IF ~exists THEN "input_missing"
    ELSE IF validateAudioExtractionPaths(params) # "ok"
    THEN validateAudioExtractionPaths(params)
    ELSE validateAudioExtractionAudioParams(params)

\* The codec and the error ("ok" for nil) selectAudioCodec returns.
selectAudioCodec(outputExt, customCodec) ==
    IF customCodec # <<>> THEN [codec |-> customCodec, err |-> "ok"]
    ELSE IF outputExt = <<".">> \o S_mp3 THEN [codec |-> S_libmp3lame, err |-> "ok"]
    ELSE IF outputExt \in {<<".">> \o S_aac, <<".">> \o S_m4a} THEN [codec |-> S_aac, err |-> "ok"]
    ELSE IF outputExt = <<".">> \o S_wav THEN [codec |-> S_pcm_s16le, err |-> "ok"]
    ELSE IF outputExt = <<".">> \o S_flac THEN [codec |-> S_flac, err |-> "ok"]
    ELSE IF outputExt = <<".">> \o S_ogg THEN [codec |-> S_libvorbis, err |-> "ok"]
    ELSE [codec |-> <<>>, err |-> "unsupported_output_format"]

getQualityBitrate(quality) ==
    IF ToLower(quality) = S_low THEN <<"1","2","8","k">>
    ELSE IF ToLower(quality) = S_medium THEN <<"1","9","2","k">>
    ELSE IF ToLower(quality) = S_high THEN <<"3","2","0","k">>
    ELSE <<"1","9","2","k">>

hasQualityBitrate(quality) == TRUE

getMP3Quality(quality) ==
    IF ToLower(quality) = S_low THEN <<"5">>
    ELSE IF ToLower(quality) = S_medium THEN <<"2">>
    ELSE IF ToLower(quality) = S_high THEN <<"0">>
    ELSE <<"2">>

getFLACCompression(quality) ==
    IF ToLower(quality) = S_low THEN <<"0">>
    ELSE IF ToLower(quality) = S_medium THEN <<"5">>
    ELSE IF ToLower(quality) = S_high THEN <<"8">>
    ELSE <<"5">>

getVorbisQuality(quality) ==
    IF ToLower(quality) = S_low THEN <<"3">>
    ELSE IF ToLower(quality) = S_medium THEN <<"6">>
    ELSE IF ToLower(quality) = S_high THEN <<"9">>
    ELSE <<"6">>

\* The codec-specific options appended for the codec.
codecOptions(params, codec) ==
    IF codec = S_libmp3lame
    THEN IF params.Bitrate = <<>> /\ ~hasQualityBitrate(params.Quality)
         THEN <<A_qa, getMP3Quality(params.Quality)>> ELSE <<>>
    ELSE IF codec = S_flac
    THEN <<A_compression_level, getFLACCompression(params.Quality)>>
    ELSE IF codec = S_libvorbis
    THEN IF params.Bitrate = <<>> /\ ~hasQualityBitrate(params.Quality)
         THEN <<A_qa, getVorbisQuality(params.Quality)>> ELSE <<>>
    ELSE <<>>

\* The command is built from the values as they are; no check is made and
\* the result is never nil.
buildAudioExtractionCommandSecure(params, codec) ==
    <<A_ffmpeg, A_i, params.InputFile, A_vn, A_ca, codec>>
    \o (IF params.Bitrate # <<>> THEN <<A_ba, params.Bitrate>>
        ELSE IF getQualityBitrate(params.Quality) # <<>>
        THEN <<A_ba, getQualityBitrate(params.Quality)>>
        ELSE <<>>)
    \o (IF params.SampleRate # <<>> THEN <<A_ar, params.SampleRate>> ELSE <<>>)
    \o (IF params.Channels # <<>> THEN <<A_ac, params.Channels>> ELSE <<>>)
    \o codecOptions(params, codec)
    \o <<A_y, params.OutputFile>>

(***************************************************************************)
(* internal/analyzer/analyzer.go.  A prober report is what ffprobe wrote   *)
(* to its standard output: text tells whether it is empty, not JSON or a   *)
(* JSON document; of a JSON document the model keeps the format section    *)
(* (present or not) and the streams with their codec_type and codec_name.  *)
(* The strings of a report are plain decimal numbers or words like N/A.    *)
(***************************************************************************)
NoFormat == [present |-> FALSE]

Format(name, duration, size, bitRate) ==
    [present |-> TRUE, format_name |-> name, duration |-> duration,
     size |-> size, bit_rate |-> bitRate]

\* One entry of "streams": bit_rate and language are <<>> where the report
\* does not hold them.
StreamEntry(index, codecType, codecName, bitRate, language) ==
    [index |-> index, codec_type |-> codecType, codec_name |-> codecName,
     bit_rate |-> bitRate, language |-> language]

Report(text, format, streams) == [text |-> text, format |-> format, streams |-> streams]

NoReport == Report("none", NoFormat, <<>>)

\* gjson.Get(jsonOutput, "format") and gjson.Get(jsonOutput, "streams"): on a
\* text that holds no JSON document nothing is found.
reportFormat(report) == IF report.text = "json" THEN report.format ELSE NoFormat

reportStreams(report) == IF report.text = "json" THEN report.streams ELSE <<>>

\* parseDuration: the duration in milliseconds, 0 where the string is empty
\* or not a number.
parseDuration(durationStr) ==
    IF durationStr = <<>> \/ ~DecimalRegex(durationStr) THEN 0
    ELSE LET dot == IndexOf(durationStr, ".")
             whole == IF dot = 0 THEN durationStr ELSE SubSeq(durationStr, 1, dot - 1)
             frac == IF dot = 0 THEN <<>> ELSE SubSeq(durationStr, dot + 1, Len(durationStr))
         IN Atoi(whole) * 1000 + FracDigit(frac, 1) * 100 + FracDigit(frac, 2) * 10
            + FracDigit(frac, 3)

\* parseSize, parseBitrate: strconv.ParseInt, 0 where it fails.
parseInt64(str) == IF AllDigits(str) THEN Atoi(str) ELSE 0

\* parseStreamBitrate: 0 where bit_rate is missing or is not a number.
parseStreamBitrate(bitrateStr) == IF bitrateStr # <<>> THEN parseInt64(bitrateStr) ELSE 0

\* The width, height, frame rate and pixel format are copied like the codec.
parseVideoStream(stream) ==
    [Index |-> stream.index, Codec |-> stream.codec_name,
     Bitrate |-> parseStreamBitrate(stream.bit_rate)]

\* The sample rate and the channels are copied like the codec.
parseAudioStream(stream) ==
    [Index |-> stream.index, Codec |-> stream.codec_name,
     Bitrate |-> parseStreamBitrate(stream.bit_rate), Language |-> stream.language]

parseStream(stream) ==
    IF stream.codec_type = "video" THEN parseVideoStream(stream) ELSE parseAudioStream(stream)

\* streamsOfType with each stream put before the ones already parsed.
RECURSIVE streamsOfTypeReversed(_, _, _)
streamsOfTypeReversed(streams, codecType, i) ==
    IF i > Len(streams) THEN <<>>
    ELSE streamsOfTypeReversed(streams, codecType, i + 1)
         \o (IF streams[i].codec_type = codecType
             THEN <<parseStream(streams[i])>> ELSE <<>>)

\* parseStreamInformation: the streams of one type, appended in report order.
RECURSIVE streamsOfType(_, _, _)
streamsOfType(streams, codecType, i) ==
    IF i > Len(streams) THEN <<>>
    ELSE (IF streams[i].codec_type = codecType
          THEN <<parseStream(streams[i])>> ELSE <<>>)
         \o streamsOfType(streams, codecType, i + 1)

\* parseFFProbeOutput: parseFormatInformation and parseStreamInformation
\* return nil in every case, so the error is always nil.
parseFFProbeOutput(report, filepath) ==
    LET format == reportFormat(report)
    IN [err |-> "ok",
        info |-> [Filename |-> filepath,
                  Format |-> IF format.present THEN format.format_name ELSE <<>>,
                  Duration |-> IF format.present THEN parseDuration(format.duration) ELSE 0,
                  Size |-> IF format.present THEN parseInt64(format.size) ELSE 0,
                  Bitrate |-> IF format.present THEN parseInt64(format.bit_rate) ELSE 0,
                  VideoStreams |-> streamsOfType(reportStreams(report), "video", 1),
                  AudioStreams |-> streamsOfType(reportStreams(report), "audio", 1)]]

(***************************************************************************)
(* The progress line of executeFFmpegWithProgress.  Elapsed time and total *)
(* duration are in milliseconds, the speed in thousandths; a percentage is *)
(* held as the fraction n/d of which it is the hundredfold, or is not a    *)
(* number.                                                                 *)
(***************************************************************************)
barWidth == 30

\* The least int, as IntCap stands for the largest.
MinInt == -IntCap - 1

\* A line that matches timeRegex: its four two-digit groups, and the group
\* of speedRegex or <<>> where the line has no speed token.
TimeLine(hh, mm, ss, cc, speed) == [hh |-> hh, mm |-> mm, ss |-> ss, cc |-> cc, speed |-> speed]

\* currentSeconds, in milliseconds
currentSeconds(line) ==
    (Atoi(line.hh) * 3600 + Atoi(line.mm) * 60 + Atoi(line.ss)) * 1000 + Atoi(line.cc) * 10

NaN == [kind |-> "nan", n |-> 0, d |-> 1]

Num(n, d) == [kind |-> "num", n |-> n, d |-> d]

\* (currentSeconds / totalSeconds) * 100, set to 100 when above 100.  With
\* a total of 0 the quotient is +Inf for a positive elapsed time, which is
\* above 100, and not a number for an elapsed time of 0, which is not.
progressPercent(current, total) ==
    IF total = 0 THEN (IF current = 0 THEN NaN ELSE Num(1, 1))
    ELSE IF current > total THEN Num(1, 1)
    ELSE Num(current, total)

\* strconv.ParseFloat of the speed group, 0 where it fails or the line has
\* no speed token; in thousandths.
parseSpeed(speedStr) ==
    IF speedStr = <<>> \/ ~DecimalRegex(speedStr) THEN 0
    ELSE LET dot == IndexOf(speedStr, ".")
             whole == IF dot = 0 THEN speedStr ELSE SubSeq(speedStr, 1, dot - 1)
             frac == IF dot = 0 THEN <<>> ELSE SubSeq(speedStr, dot + 1, Len(speedStr))
         IN Atoi(whole) * 1000 + FracDigit(frac, 1) * 100 + FracDigit(frac, 2) * 10
            + FracDigit(frac, 3)

\* formatDuration of a whole number of seconds
formatDuration(d) ==
    IF d < 60 THEN [form |-> "s", a |-> d, b |-> 0]
    ELSE IF d < 3600 THEN [form |-> "ms", a |-> d \div 60, b |-> d % 60]
    ELSE [form |-> "hm", a |-> d \div 3600, b |-> (d \div 60) % 60]

NoETA == [form |-> "", a |-> 0, b |-> 0]

\* etaOf without the test current < total.
etaOfAnyTime(current, total, speed) ==
    IF speed > 0
    THEN formatDuration((total - current) \div speed)
    ELSE NoETA

\* eta: time.Duration(remainingSeconds) drops the fraction of a second.
etaOf(current, total, speed) ==
    IF speed > 0 /\ current < total
    THEN formatDuration((total - current) \div speed)
    ELSE NoETA

\* int((progressPercent / 100) * float64(barWidth)): the conversion of a
\* value that is not a number yields a value that depends on the platform.
filledOf(percent) ==
    IF percent.kind = "nan" THEN {MinInt, 0}
    ELSE {(percent.n * barWidth) \div percent.d}

\* One pass of the loop body on a line with a time token: the line written
\* to the terminal, or a panic of strings.Repeat on a negative count.
renderProgress(line, total, filled) ==
    LET current == currentSeconds(line)
        percent == progressPercent(current, total)
        speed == parseSpeed(line.speed)
    IN IF filled < 0 \/ barWidth - filled < 0
       THEN [outcome |-> "panic", percent |-> percent, filled |-> filled, cells |-> 0,
             speed |-> speed, eta |-> etaOf(current, total, speed)]
       ELSE [outcome |-> "rendered", percent |-> percent, filled |-> filled,
             cells |-> filled + (barWidth - filled),
             speed |-> speed, eta |-> etaOf(current, total, speed)]

(***************************************************************************)
(* State.  The validators are pure; vcall, varg, vkind and vret hold the   *)
(* last validator call, its arguments and the verdict it returned.         *)
(***************************************************************************)
VARIABLES vcall, varg, vkind, vret

\* The codec selector is pure as well: scall names the call made, sargs its
\* arguments and sret the <<video codec, audio codec, stream copy>> returned.
VARIABLES scall, sargs, sret

\* The command builders are pure too: bcall names the builder called, bargs
\* its arguments and bret the argument vector returned (NoCommand for nil).
VARIABLES bcall, bargs, bret

\* One run of ConvertVideoWithCustomParams: pc is the step the run is at, the
\* arguments of the call, the locals of the function, the error returned
\* (result), and the external processes started so far (procs).
\* encoderArgs is the argument vector of the encoder process once started.
VARIABLES pc, inputPath, outputPath, preset, presetExplicit, customParamsSet,
          customParams, verbose, inputInfo, videoCodec, audioCodec, canCopy,
          secureCustomParams, cmd, result, procs, encoderArgs

\* op is the operation under way (convert, extract or info); audioParams the
\* AudioExtractionParams of an extraction; alive the child processes running;
\* exits the exit statuses of the children that ended, in order; probeOut
\* the report read from the prober.
VARIABLES op, audioParams, alive, exits, probeOut
\* errOutput tells whether the error returned carries the output of the encoder.
VARIABLE errOutput

\* One run of executeFFmpegWithProgress.  tpc is the step of the main flow
\* and spc the step of the background scanner; child tells whether the
\* encoder runs, written counts the lines it wrote, texit is its exit status;
\* pipe holds the lines written and not yet read, pipeClosed tells that Wait
\* closed the read end, sbuf holds the lines the scanner has read and not yet
\* treated; progressShown is the flag the two share; trace lists what was
\* written to the terminal (progress, clear, final) and the return of the
\* function; tresult is the error returned.
VARIABLES tpc, spc, child, written, texit, pipe, pipeClosed, sbuf, progressShown, trace, tresult
\* planned is the number of lines the encoder writes before it exits.
VARIABLE planned
\* skipped counts the lines the loop body has passed over without a render.
VARIABLE skipped

\* The last pass of the loop body of the scanner on a line with a time
\* token: the line, the total duration, and what was rendered.
VARIABLES rcall, rline, rtotal, rret

valVars == <<vcall, varg, vkind, vret>>
selVars == <<scall, sargs, sret>>
bldVars == <<bcall, bargs, bret>>
renderVars == <<rcall, rline, rtotal, rret>>
trackVars == <<tpc, spc, child, written, texit, pipe, pipeClosed, sbuf, progressShown, trace, tresult, planned, skipped>>
argVars == <<inputPath, outputPath, preset, presetExplicit, customParamsSet, customParams, verbose>>
localVars == <<inputInfo, videoCodec, audioCodec, canCopy, secureCustomParams, cmd>>
procVars == <<procs, alive, exits>>
convVars == <<pc, op, audioParams, argVars, localVars, probeOut, result, procVars, encoderArgs,
             errOutput>>

vars == <<valVars, selVars, bldVars, convVars, trackVars, renderVars>>

(***************************************************************************)
(* The strings the validators are called with.                             *)
(***************************************************************************)
Inserts(b, chars) ==
    {SubSeq(b, 1, i) \o <<c>> \o SubSeq(b, i + 1, Len(b)) : i \in 0..Len(b), c \in chars}

RECURSIVE FreeStrings(_, _)
FreeStrings(alphabet, n) ==
    IF n = 0 THEN {<<>>}
    ELSE LET shorter == FreeStrings(alphabet, n - 1)
         IN shorter \cup {Append(s, c) : s \in shorter, c \in alphabet}

ProbeChars == DangerousChars \cup {" ", "-", ".", "/", "x", "0", "k", "a"}

CodecInputs ==
    LET listed == AllowedVideoCodecs \cup AllowedAudioCodecs
    IN listed
       \cup UNION {Inserts(b, DangerousChars \cup {" ", "-"}) : b \in listed}
       \cup {<<"h","2","6","4">>, <<"L","I","B","X","2","6","4">>,
             <<"l","i","b","a","o","m","-","a","v","1">>,
             Repeat("a", MaxParameterLength), Repeat("a", MaxParameterLength + 1)}
       \cup FreeStrings({"a", "c", " "}, MaxFree)

CodecKinds == {"video", "audio", "subtitle", ""}

BitrateInputs ==
    LET good == {<<"2","M">>, <<"1","5","0","0","k">>, <<"1",".","5","m">>, <<"1","9","2","0","0","0">>}
    IN good
       \cup UNION {Inserts(b, ProbeChars) : b \in good}
       \cup {Repeat("1", MaxParameterLength), Repeat("1", MaxParameterLength + 1)}
       \cup FreeStrings({"1", ".", "k", "M"}, MaxFree)

NumberStrings ==
    {<<"0">>, <<"1">>, <<"2">>, <<"0","0","0","1">>,
     <<"4","3","2","0">>, <<"4","3","2","1">>,
     <<"7","6","8","0">>, <<"7","6","8","1">>, <<"0","0","7","6","8","0">>,
     <<"1","9","2","0">>, <<"1","0","8","0">>,
     <<"9","9","9","9","9">>, <<"6","5","5","3","7">>,
     \* 2^32 + 1, 2^63, 2^64 + 1, and a 24-digit number
     <<"4","2","9","4","9","6","7","2","9","7">>,
     <<"9","2","2","3","3","7","2","0","3","6","8","5","4","7","7","5","8","0","8">>,
     <<"1","8","4","4","6","7","4","4","0","7","3","7","0","9","5","5","1","6","1","7">>,
     Repeat("9", 24)}

ResolutionInputs ==
    LET hd == <<"1","9","2","0","x","1","0","8","0">>
    IN {w \o <<"x">> \o h : w \in NumberStrings, h \in NumberStrings}
       \cup Inserts(hd, ProbeChars)
       \cup {<<"1","9","2","0","X","1","0","8","0">>,
             Repeat("0", MaxParameterLength - 3) \o <<"1","x","1">>,
             Repeat("0", MaxParameterLength - 2) \o <<"1","x","1">>,
             <<"1","x">> \o Repeat("0", MaxParameterLength - 3) \o <<"1">>}
       \cup FreeStrings({"1", "x", "0"}, MaxFree + 1)

FramerateInts ==
    {<<"0">>, <<"0","0">>, <<"1">>, <<"3","0">>, <<"1","1","9">>, <<"1","2","0">>,
     <<"1","2","1">>, <<"0","1","2","0">>, <<"9","9","9">>, Repeat("9", 24)}

FramerateFracs ==
    {<<"0">>, <<"0","0","0">>, <<"5">>, <<"9","7","6">>, Repeat("9", 17),
     Repeat("0", 14) \o <<"7">>, Repeat("0", 14) \o <<"8">>,
     SubSeq(HalfUlpDigits, 1, 40)}
    \cup {Repeat("0", k) \o <<"1">> : k \in 0..MaxFracZeros}

FramerateInputs ==
    FramerateInts
    \cup {i \o <<".">> \o f : i \in FramerateInts, f \in FramerateFracs}
    \cup Inserts(<<"2","3",".","9","7","6">>, ProbeChars)
    \cup {<<"3","0",".">> \o Repeat("0", MaxParameterLength - 3),
          <<"3","0",".">> \o Repeat("0", MaxParameterLength - 2),
          <<"1","e","3">>, <<"+","3","0">>, <<"N","a","N">>, <<"i","n","f">>}
    \cup FreeStrings({"1", ".", "0"}, MaxFree + 1)

P_clip == <<"c","l","i","p",".","m","p","4">>
P_etc == <<".",".","/",".",".","/","e","t","c","/","p","a","s","s","w","d">>

PathInputs ==
    {P_clip, P_etc,
     <<"a","/","b",".","m","k","v">>,
     <<"a","/",".",".","/","b",".","m","p","4">>,
     <<"a","/","b","/",".",".","/",".",".","/",".",".","/","c">>,
     <<"/",".",".","/","c",".","m","p","4">>,
     <<"m","y",".",".","c","l","i","p",".","m","p","4">>,
     <<"c","l","i","p",".",".",".">>,
     <<"-","y">>,
     Repeat("a", MaxPathLength), Repeat("a", MaxPathLength + 1),
     <<".",".","/">> \o Repeat("a", MaxPathLength)}
    \cup Inserts(P_clip, ProbeChars)
    \cup Inserts(<<"a","/",".","/","b">>, {".", "/"})
    \cup FreeStrings({".", "/", "a"}, MaxFree + 2)

(***************************************************************************)
(* One action per validator: a call with any input of its set.             *)
(***************************************************************************)
CallValidateCodec ==
    /\ vcall = "none"
    /\ \E s \in CodecInputs, k \in CodecKinds :
           /\ vcall' = "ValidateCodec" /\ varg' = s /\ vkind' = k
           /\ UNCHANGED <<selVars, bldVars, convVars, trackVars, renderVars>>
           /\ vret' = ValidateCodec(s, k)

CallValidateBitrate ==
    /\ vcall = "none"
    /\ \E s \in BitrateInputs :
           /\ vcall' = "ValidateBitrate" /\ varg' = s /\ vkind' = ""
           /\ UNCHANGED <<selVars, bldVars, convVars, trackVars, renderVars>>
           /\ vret' = ValidateBitrate(s)

CallValidateResolution ==
    /\ vcall = "none"
    /\ \E s \in ResolutionInputs :
           /\ vcall' = "ValidateResolution" /\ varg' = s /\ vkind' = ""
           /\ UNCHANGED <<selVars, bldVars, convVars, trackVars, renderVars>>
           /\ vret' = ValidateResolution(s)

CallValidateFramerate ==
    /\ vcall = "none"
    /\ \E s \in FramerateInputs :
           /\ vcall' = "ValidateFramerate" /\ varg' = s /\ vkind' = ""
           /\ UNCHANGED <<selVars, bldVars, convVars, trackVars, renderVars>>
           /\ vret' = ValidateFramerate(s)

CallValidateFilePath ==
    /\ vcall = "none"
    /\ \E s \in PathInputs :
           /\ vcall' = "ValidateFilePath" /\ varg' = s /\ vkind' = ""
           /\ UNCHANGED <<selVars, bldVars, convVars, trackVars, renderVars>>
           /\ vret' = ValidateFilePath(s)

NoMedia == [VideoStreams |-> <<>>, AudioStreams |-> <<>>]

\* AudioExtractionParams{}
NoAudioParams ==
    [InputFile |-> <<>>, OutputFile |-> <<>>, Quality |-> <<>>, Bitrate |-> <<>>,
     Codec |-> <<>>, SampleRate |-> <<>>, Channels |-> <<>>, Verbose |-> FALSE]

\* No validator and no selector call made yet, no conversion under way.
Init ==
    /\ vcall = "none" /\ varg = <<>> /\ vkind = "" /\ vret = "ok"
    /\ scall = "none" /\ sargs = <<>> /\ sret = <<>>
    /\ bcall = "none" /\ bargs = <<>> /\ bret = <<>>
    /\ pc = "idle"
    /\ inputPath = <<>> /\ outputPath = <<>> /\ preset = ""
    /\ presetExplicit = FALSE /\ customParamsSet = FALSE
    /\ customParams = EmptyParams /\ verbose = FALSE
    /\ inputInfo = NoMedia
    /\ videoCodec = <<>> /\ audioCodec = <<>> /\ canCopy = FALSE
    /\ secureCustomParams = EmptyParams
    /\ cmd = NoCommand
    /\ result = "pending"
    /\ procs = <<>>
    /\ encoderArgs = <<>>
    /\ op = "none" /\ audioParams = NoAudioParams
    /\ alive = {} /\ exits = <<>> /\ probeOut = NoReport
    /\ errOutput = "none"
    /\ tpc = "idle" /\ spc = "idle" /\ child = "none" /\ written = 0 /\ texit = 0
    /\ planned = 0 /\ skipped = 0
    /\ rcall = "none" /\ rline = TimeLine(<<>>, <<>>, <<>>, <<>>, <<>>) /\ rtotal = 0
    /\ rret = [outcome |-> "none", percent |-> NaN, filled |-> 0, cells |-> 0,
               speed |-> 0, eta |-> NoETA]
    /\ pipe = <<>> /\ pipeClosed = FALSE /\ sbuf = <<>>
    /\ progressShown = FALSE /\ trace = <<>> /\ tresult = "pending"

ValNext ==
    \/ CallValidateCodec
    \/ CallValidateBitrate
    \/ CallValidateResolution
    \/ CallValidateFramerate
    \/ CallValidateFilePath

SpecValidate == Init /\ [][ValNext]_vars

(***************************************************************************)
(* The selector called with any media description, container, preset and   *)
(* custom parameters.                                                      *)
(***************************************************************************)
Stream(codec) == [Codec |-> codec]

Media(video, audio) == [VideoStreams |-> video, AudioStreams |-> audio]

MediaInfos ==
    {Media(<<Stream(S_h264)>>, <<Stream(S_aac)>>),
     Media(<<Stream(S_vp9)>>, <<Stream(S_opus)>>),
     Media(<<Stream(S_hevc), Stream(S_vp9)>>, <<Stream(S_mp3), Stream(S_opus)>>),
     Media(<<Stream(S_vp9), Stream(S_h264)>>, <<Stream(S_aac)>>),
     Media(<<Stream(<<"m","p","e","g","4">>)>>, <<Stream(S_ac3)>>),
     Media(<<Stream(S_h264)>>, <<Stream(S_flac)>>),
     Media(<<Stream(S_h264)>>, <<Stream(<<"e","a","c","3">>)>>),
     Media(<<Stream(S_h264)>>, <<Stream(<<"a","a","c","_","l","a","t","m">>)>>),
     Media(<<Stream(S_h264)>>, <<>>),
     Media(<<>>, <<Stream(S_aac)>>),
     Media(<<>>, <<>>)}

Presets == {"low", "medium", "high", "ultra"}

OutputFormats == SupportedFormats \cup {<<>>, <<"f","l","v">>}

SelectorParams ==
    [VideoCodec : {<<>>} \cup AllowedVideoCodecs,
     AudioCodec : {<<>>} \cup AllowedAudioCodecs,
     VideoBitrate : {<<>>, <<"5","M">>},
     AudioBitrate : {<<>>},
     Resolution : {<<>>, <<"6","4","0","x","4","8","0">>},
     Framerate : {<<>>}]

HasCustomField(p) == p # EmptyParams

CallSelectCodecs ==
    /\ scall = "none"
    /\ \E info \in MediaInfos, fmt \in OutputFormats, p \in Presets,
          e \in BOOLEAN, set \in BOOLEAN, params \in SelectorParams :
           /\ scall' = "selectCodecsWithCustomParamsSecure"
           /\ sargs' = [inputInfo |-> info, outputFormat |-> fmt, preset |-> p,
                        presetExplicit |-> e, customParamsSet |-> set,
                        customParams |-> params]
           /\ sret' = selectCodecsWithCustomParamsSecure(info, fmt, p, e, set, params)
           /\ UNCHANGED <<valVars, bldVars, convVars, trackVars, renderVars>>

SelNext == CallSelectCodecs

SpecSelect == Init /\ [][SelNext]_vars

(***************************************************************************)
(* The conversion command builder called with any paths, codecs and custom *)
(* parameters, validated upstream or not.                                  *)
(***************************************************************************)
BuildPaths ==
    {<<"i","n",".","m","p","4">>, <<"a","(","1",")",".","m","k","v">>,
     <<".",".","/","a",".","m","p","4">>, <<"o",";","x",".","a","v","i">>,
     <<"-","f",".","a","v","i">>, <<>>}

BuildVideoCodecs == {S_copy, S_libx264, S_libvpx, S_aac, S_libx264 \o <<";","r","m">>, <<>>}

BuildAudioCodecs == {S_copy, S_aac, S_pcm_s16le, S_libx264, S_aac \o <<" ","-","y">>, <<>>}

BuildParams ==
    [VideoCodec : {<<>>},
     AudioCodec : {<<>>},
     VideoBitrate : {<<>>, <<"5","M">>, <<"5","M",";","x">>},
     AudioBitrate : {<<>>, <<"9","6","k">>, <<"9","6","k","b","p","s">>},
     Resolution : {<<>>, <<"6","4","0","x","4","8","0">>, <<"9","9","9","9","x","1">>},
     Framerate : {<<>>, <<"2","4">>, <<"2","4","|","x">>}]

CallBuildFFmpegCommand ==
    /\ bcall = "none"
    /\ \E i \in BuildPaths, o \in BuildPaths, v \in BuildVideoCodecs,
          a \in BuildAudioCodecs, p \in Presets, params \in BuildParams :
           /\ bcall' = "buildFFmpegCommandWithCustomParams"
           /\ bargs' = [input |-> i, output |-> o, videoCodec |-> v, audioCodec |-> a,
                        preset |-> p, customParams |-> params]
           /\ bret' = buildFFmpegCommandWithCustomParams(i, o, v, a, p, params)
    /\ UNCHANGED <<valVars, selVars, convVars, trackVars, renderVars>>

BuildAudioParams ==
    [InputFile : {<<"i","n",".","m","p","4">>, <<".",".","/","a",".","m","p","4">>},
     OutputFile : {<<"o",".","m","p","3">>, <<"o",";","x",".","o","g","g">>,
                   <<"-","f",".","m","p","3">>},
     Quality : {S_low, <<"b","e","s","t">>},
     Bitrate : {<<>>, <<"3","2","0","k">>, <<"3","2","0","k",";","x">>},
     Codec : {<<>>},
     SampleRate : {<<>>, <<"4","4","1","0","0">>, <<"4","4","1","0","1">>},
     Channels : {<<>>, <<"2">>, <<"2","(",")">>},
     Verbose : {FALSE}]

CallBuildAudioExtraction ==
    /\ bcall = "none"
    /\ \E params \in BuildAudioParams,
          codec \in {S_libmp3lame, S_flac, S_libvorbis, S_libx264, S_aac \o <<" ","-","y">>} :
           /\ bcall' = "buildAudioExtractionCommandSecure"
           /\ bargs' = [params |-> params, codec |-> codec]
           /\ bret' = buildAudioExtractionCommandSecure(params, codec)
    /\ UNCHANGED <<valVars, selVars, convVars, trackVars, renderVars>>

BldNext ==
    \/ CallBuildFFmpegCommand
    \/ CallBuildAudioExtraction

SpecBuild == Init /\ [][BldNext]_vars

(***************************************************************************)
(* The operations, step by step: ConvertVideoWithCustomParams,             *)
(* ExtractAudio and runInfo.  One operation runs from idle to done.        *)
(***************************************************************************)
P_in == <<"i","n",".","m","p","4">>
P_in_paren == <<"a","(","1",")",".","m","k","v">>
P_in_up == <<".",".","/","a",".","m","p","4">>
P_out == <<"o",".","m","p","4">>
P_out_bracket == <<"o","[","1","]",".","w","e","b","m">>
P_out_semi == <<"o",";","x",".","a","v","i">>
P_out_txt == <<"o",".","t","x","t">>
P_out_mp3 == <<"o",".","M","P","3">>
P_out_flac == <<"o",".","f","l","a","c">>

ConvInputPaths == {P_in_paren, P_in_up}
ConvOutputPaths == {P_out, P_out_bracket, P_out_semi, P_out_txt}
ConvPresets == {"low", "ultra"}

ConvParams ==
    [VideoCodec : {<<>>, S_libx264, S_copy, S_libx264 \o <<";","r","m">>},
     AudioCodec : {<<>>, S_libopus, S_copy, S_aac \o <<"&","&","x">>},
     VideoBitrate : {<<>>, <<"5","M">>, <<"5","M",";","x">>},
     AudioBitrate : {<<>>, <<"9","6","k">>, <<"9","6","k","b","p","s">>},
     Resolution : {<<>>, <<"6","4","0","x","4","8","0">>, <<"9","9","9","9","x","1">>},
     Framerate : {<<>>, <<"2","4">>, <<"2","4","|","x">>}]

\* What the prober may write: a full report, a report with words for
\* numbers and a stream that is neither video nor audio, a report with no
\* format section, and an empty output.
ProbeReports ==
    {Report("json",
            Format(<<"m","p","4">>, <<"1","0",".","0","0","0","0","0","0">>,
                   <<"1","0","0","0">>, <<"8","0","0">>),
            <<StreamEntry(0, "video", S_h264, <<"7","0","0">>, <<>>),
              StreamEntry(1, "audio", S_aac, <<"9","6">>, <<"e","n","g">>)>>),
     Report("json",
            Format(<<"w","e","b","m">>, <<"N","/","A">>, <<>>, <<"N","/","A">>),
            <<StreamEntry(0, "video", S_vp9, <<>>, <<>>),
              StreamEntry(1, "subtitle", <<"a","s","s">>, <<>>, <<"e","n","g">>)>>),
     Report("json", NoFormat,
            <<StreamEntry(0, "audio", S_opus, <<"N","/","A">>, <<>>),
              StreamEntry(1, "video", S_vp9, <<"5","0","0">>, <<>>),
              StreamEntry(2, "audio", S_aac, <<"6","4">>, <<"f","r","a">>)>>),
     Report("empty", NoFormat, <<>>)}

ExtractParams ==
    [InputFile : {P_in, P_in_up},
     OutputFile : {P_out_mp3, P_out_flac, P_out, P_out_semi},
     Quality : {S_low, <<"H","I","G","H">>},
     Bitrate : {<<>>, <<"3","2","0","k">>, <<"3","2","0","k",";","x">>},
     Codec : {<<>>, S_libvorbis, S_aac \o <<"&","&","x">>},
     SampleRate : {<<>>, <<"4","4","1","0","0">>, <<"4","4","1","0","1">>},
     Channels : {<<>>, <<"2">>, <<"2","(",")">>},
     Verbose : BOOLEAN]

InfoPaths == {P_in, P_in_up, P_etc}

ConvertCall ==
    /\ pc = "idle"
    /\ \E i \in ConvInputPaths, o \in ConvOutputPaths, p \in ConvPresets,
          e \in BOOLEAN, set \in BOOLEAN, params \in ConvParams, v \in BOOLEAN :
           /\ inputPath' = i /\ outputPath' = o /\ preset' = p
           /\ presetExplicit' = e /\ customParamsSet' = set /\ customParams' = params
           /\ verbose' = v
    /\ op' = "convert"
    /\ pc' = "validate"
    /\ UNCHANGED <<valVars, selVars, bldVars, trackVars, renderVars, errOutput, audioParams, localVars, probeOut, result,
                   procVars, encoderArgs>>

ExtractCall ==
    /\ pc = "idle"
    /\ \E params \in ExtractParams :
           /\ audioParams' = params
           /\ inputPath' = params.InputFile /\ outputPath' = params.OutputFile
           /\ verbose' = params.Verbose
    /\ op' = "extract"
    /\ pc' = "validate"
    /\ UNCHANGED <<valVars, selVars, bldVars, trackVars, renderVars, errOutput, preset, presetExplicit, customParamsSet,
                   customParams, localVars, probeOut, result, procVars, encoderArgs>>

InfoCall ==
    /\ pc = "idle"
    /\ \E path \in InfoPaths : inputPath' = path
    /\ op' = "info"
    /\ pc' = "checkprobe"
    /\ UNCHANGED <<valVars, selVars, bldVars, trackVars, renderVars, errOutput, audioParams, outputPath, preset,
                   presetExplicit, customParamsSet, customParams, verbose, localVars,
                   probeOut, result, procVars, encoderArgs>>

\* runInfo: CheckFFProbe runs ffprobe -version to its end; what follows is
\* AnalyzeMedia on the path as given.
StepCheckFFProbe ==
    /\ pc = "checkprobe"
    /\ \/ /\ pc' = "done" /\ result' = "ffprobe_check_failed"
          /\ \/ UNCHANGED <<procs, exits>>
             \/ procs' = Append(procs, "ffprobe_version") /\ exits' = Append(exits, 1)
       \/ /\ pc' = "analyze" /\ result' = result
          /\ procs' = Append(procs, "ffprobe_version") /\ exits' = Append(exits, 0)
    /\ UNCHANGED <<valVars, selVars, bldVars, trackVars, renderVars, errOutput, op, audioParams, argVars, localVars,
                   probeOut, alive, encoderArgs>>

\* Conversion steps 1 to 4; extraction step 1.
StepValidate ==
    /\ pc = "validate"
    /\ \E exists \in BOOLEAN :
           LET verdict == IF op = "convert"
                          THEN validateConversion(inputPath, outputPath, customParamsSet,
                                                  customParams, exists)
                          ELSE validateAudioExtractionParams(audioParams, exists)
           IN IF verdict = "ok"
              THEN pc' = "analyze" /\ result' = result
              ELSE pc' = "done" /\ result' = verdict
    /\ UNCHANGED <<valVars, selVars, bldVars, trackVars, renderVars, errOutput, op, audioParams, argVars, localVars,
                   probeOut, procVars, encoderArgs>>

\* AnalyzeMedia up to the start of the prober: the file is missing or the
\* prober cannot be started, and AnalyzeMedia returns an error, or the prober
\* runs.
StepAnalyze ==
    /\ pc = "analyze"
    /\ \/ /\ pc' = "done" /\ result' = "analyze_failed"
          /\ UNCHANGED procVars
       \/ /\ procs' = Append(procs, "ffprobe")
          /\ alive' = alive \cup {"ffprobe"}
          /\ pc' = "probing" /\ result' = result
          /\ UNCHANGED exits
    /\ UNCHANGED <<valVars, selVars, bldVars, trackVars, renderVars, errOutput, op, audioParams, argVars, localVars,
                   probeOut, encoderArgs>>

\* AnalyzeMedia from the end of the prober: a non-zero exit is an error; else
\* the output is parsed.  An extraction asks for an audio stream.
StepProbeExit ==
    /\ pc = "probing"
    /\ alive' = alive \ {"ffprobe"}
    /\ \/ /\ exits' = Append(exits, 1)
          /\ pc' = "done" /\ result' = "analyze_failed"
          /\ UNCHANGED <<inputInfo, probeOut>>
       \/ /\ exits' = Append(exits, 0)
          /\ \E report \in ProbeReports :
                 LET parsed == parseFFProbeOutput(report, inputPath)
                 IN /\ probeOut' = report
                    /\ IF parsed.err # "ok"
                       THEN pc' = "done" /\ result' = "analyze_failed"
                            /\ UNCHANGED inputInfo
                       ELSE IF op = "extract" /\ Len(parsed.info.AudioStreams) = 0
                       THEN pc' = "done" /\ result' = "no_audio_streams"
                            /\ UNCHANGED inputInfo
                       ELSE /\ inputInfo' = parsed.info
                            /\ IF op = "convert" THEN pc' = "select" /\ result' = result
                               ELSE IF op = "extract" THEN pc' = "build" /\ result' = result
                               ELSE pc' = "done" /\ result' = "ok"
    /\ UNCHANGED <<valVars, selVars, bldVars, trackVars, renderVars, errOutput, op, audioParams, argVars, videoCodec,
                   audioCodec, canCopy, secureCustomParams, cmd, procs, encoderArgs>>

\* Conversion steps 6 and 7.
StepSelect ==
    /\ pc = "select"
    /\ LET sel == selectCodecsWithCustomParamsSecure(inputInfo,
                      getFormatFromPath(outputPath), preset, presetExplicit,
                      customParamsSet, customParams)
       IN videoCodec' = sel[1] /\ audioCodec' = sel[2] /\ canCopy' = sel[3]
    /\ secureCustomParams' = presetBitrates(preset, customParamsSet, customParams)
    /\ pc' = "build"
    /\ UNCHANGED <<valVars, selVars, bldVars, trackVars, renderVars, errOutput, op, audioParams, argVars, inputInfo, cmd,
                   probeOut, result, procVars, encoderArgs>>

\* Conversion step 8.
StepBuild ==
    /\ pc = "build" /\ op = "convert"
    /\ cmd' = buildFFmpegCommandWithCustomParams(inputPath, outputPath, videoCodec,
                                                 audioCodec, preset, secureCustomParams)
    /\ IF cmd' = NoCommand
       THEN pc' = "done" /\ result' = "build_failed"
       ELSE pc' = "execute" /\ result' = result
    /\ UNCHANGED <<valVars, selVars, bldVars, trackVars, renderVars, errOutput, op, audioParams, argVars, inputInfo,
                   videoCodec, audioCodec, canCopy, secureCustomParams, probeOut,
                   procVars, encoderArgs>>

\* Extraction step 3: prepareAudioExtractionCommand.
StepPrepare ==
    /\ pc = "build" /\ op = "extract"
    /\ LET sel == selectAudioCodec(ToLower(Ext(audioParams.OutputFile)), audioParams.Codec)
           command == buildAudioExtractionCommandSecure(audioParams, sel.codec)
       IN IF sel.err # "ok"
          THEN pc' = "done" /\ result' = sel.err /\ UNCHANGED <<audioCodec, cmd>>
          ELSE IF command = NoCommand
          THEN pc' = "done" /\ result' = "build_failed" /\ UNCHANGED <<audioCodec, cmd>>
          ELSE pc' = "execute" /\ result' = result
               /\ audioCodec' = sel.codec /\ cmd' = command
    /\ UNCHANGED <<valVars, selVars, bldVars, trackVars, renderVars, errOutput, op, audioParams, argVars, inputInfo,
                   videoCodec, canCopy, secureCustomParams, probeOut, procVars,
                   encoderArgs>>

\* executeFFmpeg: the arguments the encoder is started with.  In verbose
\* mode the command runs as built; otherwise executeFFmpegWithProgress puts
\* -stats_period 0.2 after the program name.
trackedArgs(args) == <<args[1], A_stats_period, A_stats_value>> \o Tail(args)

\* A conversion is tracked unless verbose (executeFFmpeg); an extraction is
\* tracked when verbose (executeAudioExtraction).
tracked == IF op = "convert" THEN ~verbose ELSE verbose

\* Conversion step 9 and extraction step 5, up to the start of the encoder:
\* the pipe cannot be made (tracked mode), the encoder cannot be started, or
\* the encoder runs.
StepExecute ==
    /\ pc = "execute"
    /\ \/ /\ tracked
          /\ pc' = "done" /\ result' = "pipe_failed"
          /\ UNCHANGED <<procVars, encoderArgs>>
       \/ /\ pc' = "done" /\ result' = "start_failed"
          /\ UNCHANGED <<procVars, encoderArgs>>
       \/ /\ encoderArgs' = IF tracked THEN trackedArgs(cmd) ELSE cmd
          /\ procs' = Append(procs, "ffmpeg")
          /\ alive' = alive \cup {"ffmpeg"}
          /\ pc' = "running" /\ result' = result
          /\ UNCHANGED exits
    /\ UNCHANGED <<valVars, selVars, bldVars, trackVars, renderVars, errOutput, op, audioParams, argVars, localVars, probeOut>>

\* The diagnostic output of the encoder that the error returned carries:
\* cmd.Run and cmd.Wait yield the exit status alone; only the quiet audio
\* extraction, which runs CombinedOutput, puts the output into its error.
errorOutput(status) ==
    IF status # 0 /\ op = "extract" /\ ~tracked THEN "captured" ELSE "none"

\* StepWait with the bug of starting the encoder once more after a failure.
StepWaitRetrying ==
    /\ pc = "running"
    /\ alive' = alive \ {"ffmpeg"}
    /\ \E status \in {0, 1} :
           /\ exits' = Append(exits, status)
           /\ errOutput' = errorOutput(status)
           /\ IF status = 0 THEN result' = "ok" /\ pc' = "done"
              ELSE IF Len(procs) < 3 THEN result' = result /\ pc' = "execute"
              ELSE result' = "execution_failed" /\ pc' = "done"
    /\ UNCHANGED <<valVars, selVars, bldVars, trackVars, renderVars, op, audioParams, argVars, localVars,
                   probeOut, procs, encoderArgs>>

\* The wait for the encoder returns: the operation returns nil after a zero
\* exit and the failure otherwise.
StepWait ==
    /\ pc = "running"
    /\ alive' = alive \ {"ffmpeg"}
    /\ \E status \in {0, 1} :
           /\ exits' = Append(exits, status)
           /\ errOutput' = errorOutput(status)
           /\ result' = IF status = 0 THEN "ok" ELSE "execution_failed"
    /\ pc' = "done"
    /\ UNCHANGED <<valVars, selVars, bldVars, trackVars, renderVars, op, audioParams, argVars, localVars,
                   probeOut, procs, encoderArgs>>

Next ==
    \/ ConvertCall
    \/ ExtractCall
    \/ InfoCall
    \/ StepCheckFFProbe
    \/ StepValidate
    \/ StepAnalyze
    \/ StepProbeExit
    \/ StepSelect
    \/ StepBuild
    \/ StepPrepare
    \/ StepExecute
    \/ StepWait

Spec == Init /\ [][Next]_vars

(***************************************************************************)
(* executeFFmpegWithProgress, step by step: the main flow, the background  *)
(* scanner and the encoder run interleaved.  A diagnostic line is "time"   *)
(* when it carries an elapsed-time token and "other" when it does not.     *)
(***************************************************************************)
\* A "long" line is longer than the largest token of bufio.Scanner.
LineKinds == {"time", "other", "long"}

otherVars == <<valVars, selVars, bldVars, convVars, renderVars>>

\* Up to the start of the scanner: the pipe cannot be made or the encoder
\* cannot be started, and the function returns the error; else the encoder
\* runs and the scanner is started.
TrackCall ==
    /\ tpc = "idle"
    /\ \/ /\ \E e \in {"pipe_failed", "start_failed"} : tresult' = e
          /\ tpc' = "returned"
          /\ trace' = Append(trace, "return")
          /\ UNCHANGED <<spc, child, planned>>
       \/ /\ tpc' = "waiting" /\ spc' = "scan" /\ child' = "running"
          /\ \E n \in 0..MaxLines : planned' = n
          /\ UNCHANGED <<trace, tresult>>
    /\ UNCHANGED <<otherVars, written, texit, pipe, pipeClosed, sbuf, progressShown, skipped>>

\* The encoder writes a diagnostic line to its standard error; the write
\* blocks while the pipe is full.
ChildWrite ==
    /\ child = "running" /\ written < planned
    /\ Len(pipe) < PipeCap
    /\ \E kind \in LineKinds : pipe' = Append(pipe, kind)
    /\ written' = written + 1
    /\ UNCHANGED <<otherVars, tpc, spc, child, texit, pipeClosed, sbuf, progressShown,
                   trace, tresult, planned, skipped>>

\* The encoder exits once it has written all its output.
ChildExit ==
    /\ child = "running" /\ written = planned
    /\ child' = "exited"
    /\ \E status \in {0, 1} : texit' = status
    /\ UNCHANGED <<otherVars, tpc, spc, written, pipe, pipeClosed, sbuf, progressShown,
                   trace, tresult, planned, skipped>>

\* scanner.Scan with an empty buffer: a read takes lines out of the pipe.
ScanRead ==
    /\ spc = "scan" /\ tpc # "finished"
    /\ sbuf = <<>> /\ pipe # <<>> /\ ~pipeClosed
    /\ \E k \in 1..Len(pipe) :
           /\ sbuf' = SubSeq(pipe, 1, k)
           /\ pipe' = SubSeq(pipe, k + 1, Len(pipe))
    /\ UNCHANGED <<otherVars, tpc, spc, child, written, texit, pipeClosed, progressShown,
                   trace, tresult, planned, skipped>>

\* ScanLine with every line rendered, with or without a time token.
ScanLineRenderingAll ==
    /\ spc = "scan" /\ tpc # "finished"
    /\ sbuf # <<>>
    /\ sbuf' = Tail(sbuf)
    /\ spc' = CASE Head(sbuf) = "long" -> "done"
                [] OTHER -> "render"
    /\ skipped' = IF Head(sbuf) = "other" THEN skipped + 1 ELSE skipped
    /\ UNCHANGED <<otherVars, tpc, child, written, texit, pipe, pipeClosed, progressShown,
                   trace, tresult, planned>>

\* scanner.Scan returns a line: a line with a time token is rendered next,
\* any other line is skipped.  On a line longer than its largest token
\* scanner.Scan returns false and the loop ends.
ScanLine ==
    /\ spc = "scan" /\ tpc # "finished"
    /\ sbuf # <<>>
    /\ sbuf' = Tail(sbuf)
    /\ spc' = CASE Head(sbuf) = "time" -> "render"
                [] Head(sbuf) = "long" -> "done"
                [] OTHER -> "scan"
    /\ skipped' = IF Head(sbuf) = "other" THEN skipped + 1 ELSE skipped
    /\ UNCHANGED <<otherVars, tpc, child, written, texit, pipe, pipeClosed, progressShown,
                   trace, tresult, planned>>

\* scanner.Scan returns false: the read end was closed by Wait, or the pipe
\* is empty and the encoder, its only writer, has exited.
ScanEnd ==
    /\ spc = "scan" /\ tpc # "finished"
    /\ sbuf = <<>>
    /\ pipeClosed \/ (pipe = <<>> /\ child = "exited")
    /\ spc' = "done"
    /\ UNCHANGED <<otherVars, tpc, child, written, texit, pipe, pipeClosed, sbuf,
                   progressShown, trace, tresult, planned, skipped>>

\* fmt.Printf of the progress bar.
ScanRender ==
    /\ spc = "render" /\ tpc # "finished"
    /\ trace' = Append(trace, "progress")
    /\ spc' = "set"
    /\ UNCHANGED <<otherVars, tpc, child, written, texit, pipe, pipeClosed, sbuf,
                   progressShown, tresult, planned, skipped>>

\* progressShown = true
ScanSetShown ==
    /\ spc = "set" /\ tpc # "finished"
    /\ progressShown' = TRUE
    /\ spc' = "scan"
    /\ UNCHANGED <<otherVars, tpc, child, written, texit, pipe, pipeClosed, sbuf, trace,
                   tresult, planned, skipped>>

\* cmd.Wait returns once the encoder has exited, and closes the read end of
\* the pipe.
MainWait ==
    /\ tpc = "waiting" /\ child = "exited"
    /\ pipeClosed' = TRUE
    /\ tpc' = "check"
    /\ UNCHANGED <<otherVars, spc, child, written, texit, pipe, sbuf, progressShown,
                   trace, tresult, planned, skipped>>

\* if progressShown, clear the line.  The read is not ordered with the
\* write of the scanner: it yields the value written or still the initial
\* false.
MainClear ==
    /\ tpc = "check"
    /\ \E seen \in {FALSE, progressShown} :
           trace' = IF seen THEN Append(trace, "clear") ELSE trace
    /\ tpc' = "return"
    /\ UNCHANGED <<otherVars, spc, child, written, texit, pipe, pipeClosed, sbuf,
                   progressShown, tresult, planned, skipped>>

MainReturn ==
    /\ tpc = "return"
    /\ tresult' = IF texit = 0 THEN "ok" ELSE "execution_failed"
    /\ trace' = Append(trace, "return")
    /\ tpc' = "returned"
    /\ UNCHANGED <<otherVars, spc, child, written, texit, pipe, pipeClosed, sbuf,
                   progressShown, planned, skipped>>

\* The caller writes its final status line, and the program ends.
FinalStatus ==
    /\ tpc = "returned"
    /\ trace' = Append(trace, "final")
    /\ tpc' = "finished"
    /\ UNCHANGED <<otherVars, spc, child, written, texit, pipe, pipeClosed, sbuf,
                   progressShown, tresult, planned, skipped>>

TrackNext ==
    \/ TrackCall
    \/ ChildWrite
    \/ ChildExit
    \/ ScanRead
    \/ ScanLine
    \/ ScanEnd
    \/ ScanRender
    \/ ScanSetShown
    \/ MainWait
    \/ MainClear
    \/ MainReturn
    \/ FinalStatus

SpecTrack == Init /\ [][TrackNext]_vars

\* The encoder, the scanner and the main flow are each scheduled fairly.
ChildNext == ChildWrite \/ ChildExit
ScannerNext == ScanRead \/ ScanLine \/ ScanEnd \/ ScanRender \/ ScanSetShown
MainNext == TrackCall \/ MainWait \/ MainClear \/ MainReturn \/ FinalStatus
FairSpecTrack == SpecTrack /\ WF_vars(ChildNext) /\ WF_vars(ScannerNext) /\ WF_vars(MainNext)

(***************************************************************************)
(* The loop body of the scanner applied to one line with a time token,     *)
(* for the total durations parseDuration yields.                           *)
(***************************************************************************)
TwoDigits == {<<"0","0">>, <<"0","5">>, <<"5","9">>}

Centis == {<<"0","0">>, <<"5","0">>, <<"9","9">>}

SpeedTokens == {<<>>, <<"0">>, <<"0",".","0","0","1">>, <<"0",".","5">>, <<"2",".","0">>, <<".">>}

RenderLines ==
    {TimeLine(hh, mm, ss, cc, sp) :
        hh \in {<<"0","0">>, <<"0","1">>}, mm \in {<<"0","0">>, <<"0","1">>},
        ss \in TwoDigits, cc \in Centis, sp \in SpeedTokens}

DurationStrings ==
    {<<>>, <<"N","/","A">>, <<"5",".","5">>, <<"1","0",".","0","0","0","0","0","0">>,
     <<"4","0",".","2","5">>}

CallRenderProgress ==
    /\ rcall = "none"
    /\ \E line \in RenderLines : \E durationStr \in DurationStrings :
           LET total == parseDuration(durationStr)
           IN \E filled \in filledOf(progressPercent(currentSeconds(line), total)) :
                  /\ rcall' = "renderProgress" /\ rline' = line /\ rtotal' = total
                  /\ rret' = renderProgress(line, total, filled)
    /\ UNCHANGED <<valVars, selVars, bldVars, convVars, trackVars>>

RenderNext == CallRenderProgress

SpecRender == Init /\ [][RenderNext]_vars

(***************************************************************************)
(* Properties of the validators (checked under SpecValidate).              *)
(***************************************************************************)
DenyListed ==
    {";", "&", "|", Backtick, "$", "(", ")", "{", "}", "[", "]",
     "<", ">", "\\", "\"", "'", "\n", "\r", "\t"}
PathDenyListed == {";", "&", "|", Backtick, "$", "\"", "'", "\n", "\r", "\t"}

ParameterValidators ==
    {"ValidateCodec", "ValidateBitrate", "ValidateResolution", "ValidateFramerate"}

\* C2, as stated: each of the five validators fails on every string that
\* holds a deny-listed character.
C2_AllFiveRejectDenyListed ==
    (vcall \in ParameterValidators \cup {"ValidateFilePath"}
        /\ ContainsAnyChar(varg, DenyListed))
    => vret # "ok"

\* C2, amended: ValidateCodec, ValidateBitrate, ValidateResolution and
\* ValidateFramerate fail on every string that holds a deny-listed character;
\* ValidateFilePath fails on every string that holds a character of the path
\* deny-set ; & | backtick $ " ' newline, carriage return or tab.
C2_RejectDenyListed ==
    /\ (vcall \in ParameterValidators /\ ContainsAnyChar(varg, DenyListed))
           => vret # "ok"
    /\ (vcall = "ValidateFilePath" /\ ContainsAnyChar(varg, PathDenyListed))
           => vret # "ok"

C2_Witness ==
    /\ vcall = "ValidateFilePath"
    /\ ";" \in Chars(varg)
    /\ vret = "invalid_chars"

ClaimedVideoCodecs == {S_libx264, S_libx265, S_libvpx_vp9, S_libvpx, S_copy}
ClaimedAudioCodecs ==
    {S_aac, S_libopus, S_libmp3lame, S_libvorbis, S_flac, S_pcm_s16le, S_copy}

HasDotDotSegment(path) == \E i \in DOMAIN Split(path, "/") : Split(path, "/")[i] = DotDot

\* C5: ValidateFilePath returns the traversal verdict exactly when the
\* normalized path still holds a .. segment, and a path of at most 255
\* characters with no such segment and no character of the path deny-set
\* succeeds (also a file name that merely holds two consecutive dots).
C5_TraversalIffDotDotSegment ==
    vcall = "ValidateFilePath" =>
        /\ vret = "traversal" <=> HasDotDotSegment(Clean(varg))
        /\ (/\ Len(varg) <= 255
            /\ ~HasDotDotSegment(Clean(varg))
            /\ ~ContainsAnyChar(varg, PathDenyListed)) => vret = "ok"

RECURSIVE ShortValue(_)
ShortValue(d) ==
    IF d = <<>> THEN 0
    ELSE 10 * ShortValue(SubSeq(d, 1, Len(d) - 1)) + DigitVal(d[Len(d)])

\* The number written by the digits d lies in lo..hi (hi below 10000);
\* computed on the digits, for a number of any length.
NumberIn(d, lo, hi) ==
    /\ AllDigits(d)
    /\ Len(StripZeros(d)) <= 4
    /\ ShortValue(StripZeros(d)) \in lo..hi

\* C6: ValidateResolution accepts the empty string, and a non-empty value
\* if and only if it is digits x digits of at most 50 characters with width
\* in 1..7680 and height in 1..4320, whatever the length of the digit strings.
C6_ResolutionRange ==
    vcall = "ValidateResolution" =>
        (vret = "ok" <=>
            \/ varg = <<>>
            \/ /\ Len(varg) <= 50
               /\ Count(varg, "x") = 1
               /\ LET parts == Split(varg, "x")
                  IN /\ AllDigits(parts[1]) /\ AllDigits(parts[2])
                     /\ NumberIn(parts[1], 1, 7680)
                     /\ NumberIn(parts[2], 1, 4320))

C6_Witness ==
    /\ vcall = "ValidateResolution"
    /\ Len(varg) <= 50
    /\ Count(varg, "x") = 1
    /\ Len(Split(varg, "x")[1]) >= 20
    /\ AllDigits(Split(varg, "x")[1])
    /\ Split(varg, "x")[1][1] # "0"
    /\ NumberIn(Split(varg, "x")[2], 1, 4320)
    /\ vret = "too_large"

DecimalForm(s) ==
    /\ Chars(s) \subseteq Digits \cup {"."}
    /\ Count(s, ".") <= 1
    /\ Len(s) > 0 /\ s[1] # "." /\ s[Len(s)] # "."

IntDigits(s) == IF "." \in Chars(s) THEN SubSeq(s, 1, IndexOf(s, ".") - 1) ELSE s
FracDigits(s) == IF "." \in Chars(s) THEN SubSeq(s, IndexOf(s, ".") + 1, Len(s)) ELSE <<>>

ClaimedDefaults(format) ==
    CASE format \in {S_mp4, S_mov, S_mkv} -> <<S_libx264, S_aac>>
      [] format = S_webm -> <<S_libvpx_vp9, S_libopus>>
      [] format = S_avi -> <<S_libx264, S_libmp3lame>>
      [] OTHER -> <<S_libx264, S_aac>>

\* The first video and the first audio codec are compatible with the container.
ClaimedCompatible(info, format) ==
    LET v == info.VideoStreams[1].Codec
        a == info.AudioStreams[1].Codec
    IN CASE format \in {S_mp4, S_mov} ->
                isCompatibleCodec(v, {S_h264, S_hevc}) /\ isCompatibleCodec(a, {S_aac, S_mp3})
         [] format = S_webm ->
                isCompatibleCodec(v, {S_vp8, S_vp9, S_av1}) /\ isCompatibleCodec(a, {S_vorbis, S_opus})
         [] format = S_mkv -> TRUE
         [] format = S_avi ->
                isCompatibleCodec(v, {S_h264, S_xvid, S_divx}) /\ isCompatibleCodec(a, {S_mp3, S_ac3})
         [] OTHER -> FALSE

\* C8: with no custom parameter present the selector returns (copy, copy,
\* true) if and only if the input has a video and an audio stream, the first
\* codecs are compatible with the container and the preset was not requested
\* explicitly; otherwise the per-container defaults with stream copy false.
C8_AutomaticSelection ==
    (/\ scall = "selectCodecsWithCustomParamsSecure"
     /\ ~sargs.customParamsSet
     /\ ~HasCustomField(sargs.customParams))
    => LET eligible ==
               /\ Len(sargs.inputInfo.VideoStreams) >= 1
               /\ Len(sargs.inputInfo.AudioStreams) >= 1
               /\ ClaimedCompatible(sargs.inputInfo, sargs.outputFormat)
               /\ ~sargs.presetExplicit
       IN /\ eligible => sret = <<S_copy, S_copy, TRUE>>
          /\ ~eligible => sret = <<ClaimedDefaults(sargs.outputFormat)[1],
                                   ClaimedDefaults(sargs.outputFormat)[2], FALSE>>

C8_Witness ==
    /\ scall = "selectCodecsWithCustomParamsSecure"
    /\ ~sargs.customParamsSet
    /\ ~HasCustomField(sargs.customParams)
    /\ sargs.inputInfo = Media(<<Stream(S_h264)>>, <<Stream(S_aac)>>)
    /\ sargs.outputFormat = S_mp4
    /\ sargs.presetExplicit
    /\ sret = <<S_libx264, S_aac, FALSE>>

\* C9: when a custom parameter is present the effective video codec is the
\* custom video codec if one was supplied and the per-container default
\* otherwise, and likewise the effective audio codec.
C9_CustomCodecsKept ==
    (/\ scall = "selectCodecsWithCustomParamsSecure"
     /\ sargs.customParamsSet
     /\ HasCustomField(sargs.customParams))
    => /\ sret[1] = IF sargs.customParams.VideoCodec # <<>>
                    THEN sargs.customParams.VideoCodec
                    ELSE ClaimedDefaults(sargs.outputFormat)[1]
       /\ sret[2] = IF sargs.customParams.AudioCodec # <<>>
                    THEN sargs.customParams.AudioCodec
                    ELSE ClaimedDefaults(sargs.outputFormat)[2]

\* C11, as stated: the boolean the selector returns is true if and only if
\* the effective codecs returned are both the stream-copy codec.
C11_FlagIffCopyCodecs ==
    scall = "selectCodecsWithCustomParamsSecure"
    => (sret[3] <=> (sret[1] = S_copy /\ sret[2] = S_copy))

\* C11, amended: the boolean reports the automatic stream-copy decision.
\* When it is true both effective codecs are copy; when it is false an
\* effective codec is copy only where the caller supplied copy as the custom
\* codec of that stream.
C11_FlagIsAutomaticCopy ==
    scall = "selectCodecsWithCustomParamsSecure"
    => /\ sret[3] => sret[1] = S_copy /\ sret[2] = S_copy
       /\ (~sret[3] /\ sret[1] = S_copy) => sargs.customParams.VideoCodec = S_copy
       /\ (~sret[3] /\ sret[2] = S_copy) => sargs.customParams.AudioCodec = S_copy

C11_Witness ==
    /\ scall = "selectCodecsWithCustomParamsSecure"
    /\ sargs.customParams.VideoCodec = S_copy
    /\ sargs.customParams.AudioCodec = S_copy
    /\ sret = <<S_copy, S_copy, FALSE>>

\* The compatibility table on codec names.
TableCompatible(info, format) ==
    LET v == info.VideoStreams[1].Codec
        a == info.AudioStreams[1].Codec
    IN CASE format \in {S_mp4, S_mov} -> v \in {S_h264, S_hevc} /\ a \in {S_aac, S_mp3}
         [] format = S_webm -> v \in {S_vp8, S_vp9, S_av1} /\ a \in {S_vorbis, S_opus}
         [] format = S_mkv -> TRUE
         [] format = S_avi -> v \in {S_h264, S_xvid, S_divx} /\ a \in {S_mp3, S_ac3}
         [] OTHER -> FALSE

\* C26: stream copy is taken on the automatic path exactly when the input
\* has a video and an audio stream and the names of their first codecs are
\* in the table for the container; a name that is not listed (eac3 for avi,
\* aac_latm for mp4) and a container outside the five are not eligible.
C26_EligibleIffInTable ==
    (/\ scall = "selectCodecsWithCustomParamsSecure"
     /\ ~sargs.customParamsSet
     /\ ~HasCustomField(sargs.customParams)
     /\ ~sargs.presetExplicit)
    => (sret[3] <=> /\ Len(sargs.inputInfo.VideoStreams) >= 1
                    /\ Len(sargs.inputInfo.AudioStreams) >= 1
                    /\ TableCompatible(sargs.inputInfo, sargs.outputFormat))

EveryFixedFlag ==
    {A_i, A_cv, A_bv, A_ca, A_ba, A_s, A_r, A_y, A_vn, A_ar, A_ac, A_qa,
     A_compression_level, A_stats_period}

DashOnlyOnFlags(c) ==
    \A i \in 2..Len(c) : (c[i] # <<>> /\ c[i][1] = "-") => c[i] \in EveryFixedFlag

\* C29: in every argument vector built for a conversion or an extraction
\* from inputs that passed validation, each element that begins with '-' is
\* one of the fixed flags; no path element begins with '-'.
C29_NoValueTakenForOption ==
    /\ (/\ bcall = "buildFFmpegCommandWithCustomParams"
        /\ validateConversion(bargs.input, bargs.output, TRUE, bargs.customParams, TRUE) = "ok"
        /\ bret # NoCommand)
       => DashOnlyOnFlags(bret)
    /\ (/\ bcall = "buildAudioExtractionCommandSecure"
        /\ validateAudioExtractionParams(bargs.params, TRUE) = "ok"
        /\ bargs.codec \in AllowedAudioCodecs)
       => DashOnlyOnFlags(bret)

(***************************************************************************)
(* Properties of a conversion (checked under Spec).                        *)
(***************************************************************************)
FixedFlags == {A_i, A_cv, A_bv, A_ca, A_ba, A_s, A_r, A_y, A_stats_period}

\* The value that follows the flag has passed the validator of that flag.
PassedValidator(flag, value) ==
    CASE flag \in {A_i, A_y} -> ValidateFilePath(value) = "ok"
      [] flag = A_cv -> value = S_copy \/ ValidateCodec(value, "video") = "ok"
      [] flag = A_ca -> value = S_copy \/ ValidateCodec(value, "audio") = "ok"
      [] flag \in {A_bv, A_ba} -> value # <<>> /\ ValidateBitrate(value) = "ok"
      [] flag = A_s -> value # <<>> /\ ValidateResolution(value) = "ok"
      [] flag = A_r -> value # <<>> /\ ValidateFramerate(value) = "ok"
      [] flag = A_stats_period -> value = A_stats_value
      [] OTHER -> FALSE

\* The vector is the program name followed by pairs of a fixed flag and its
\* value: a fixed literal (copy, the statistics period) or a validated string.
FlagValuePairs(c) ==
    /\ Len(c) % 2 = 1
    /\ c[1] = A_ffmpeg
    /\ \A k \in 1..((Len(c) - 1) \div 2) :
           c[2 * k] \in FixedFlags /\ PassedValidator(c[2 * k], c[2 * k + 1])

\* C1: in every run of ConvertVideoWithCustomParams, whatever customParamsSet
\* and the custom parameters are, each user-derived element of the argument
\* vector handed to the encoder has passed its validator and every other
\* element is a fixed literal flag.
C1_ArgumentsValidated ==
    op = "convert"
    => /\ cmd # NoCommand => FlagValuePairs(cmd)
       /\ (\E i \in DOMAIN procs : procs[i] = "ffmpeg")
              => cmd # NoCommand /\ FlagValuePairs(encoderArgs)

C1_Witness ==
    /\ op = "convert"
    /\ \E i \in DOMAIN procs : procs[i] = "ffmpeg"
    /\ encoderArgs # cmd
    /\ ~customParamsSet
    /\ customParams.Resolution # <<>>
    /\ \E i \in 1..(Len(cmd) - 1) : cmd[i] = A_s /\ cmd[i + 1] = customParams.Resolution

\* C3, as stated: no element of the argument vector built holds a
\* deny-listed character, the input and output paths included.
C3_NoDenyListedAnywhere ==
    (op = "convert" /\ cmd # NoCommand) => \A i \in DOMAIN cmd : ~ContainsAnyChar(cmd[i], DenyListed)

\* C3, amended: no element of the argument vector other than the input and
\* output path holds a deny-listed character, and the input and output path
\* elements hold no character of the path deny-set.
C3_NoDenyListedOutsidePaths ==
    (op = "convert" /\ cmd # NoCommand) =>
        /\ cmd[2] = A_i /\ cmd[Len(cmd) - 1] = A_y
        /\ \A i \in DOMAIN cmd :
               IF i \in {3, Len(cmd)}
               THEN ~ContainsAnyChar(cmd[i], PathDenyListed)
               ELSE ~ContainsAnyChar(cmd[i], DenyListed)

C3_Witness ==
    /\ op = "convert"
    /\ cmd # NoCommand
    /\ cmd[3] = P_in_paren
    /\ cmd[Len(cmd)] = P_out_bracket
    /\ customParamsSet
    /\ \E i \in DOMAIN cmd : cmd[i] = A_r

HasPair(c, flag, value) == \E i \in 1..(Len(c) - 1) : c[i] = flag /\ c[i + 1] = value

\* C10, as stated: whenever a custom parameter is present the command built
\* holds neither -c:v copy nor -c:a copy.
C10_NeverCopyWithParams ==
    (op = "convert" /\ cmd # NoCommand
        /\ (customParamsSet
            \/ (customParams.VideoCodec # <<>> /\ customParams.AudioCodec # <<>>)))
    => ~HasPair(cmd, A_cv, S_copy) /\ ~HasPair(cmd, A_ca, S_copy)

\* C10, amended: whenever a custom parameter is present (customParamsSet, or
\* both codecs supplied) the selector returns stream copy = false, and the
\* command built holds -c:v copy (-c:a copy) only when the custom video
\* (audio) codec supplied is copy itself.
C10_CopyOnlyOnRequest ==
    (op = "convert"
        /\ (customParamsSet
            \/ (customParams.VideoCodec # <<>> /\ customParams.AudioCodec # <<>>)))
    => /\ ~canCopy
       /\ HasPair(cmd, A_cv, S_copy) => customParams.VideoCodec = S_copy
       /\ HasPair(cmd, A_ca, S_copy) => customParams.AudioCodec = S_copy

C10_Witness ==
    /\ op = "convert"
    /\ cmd # NoCommand
    /\ customParamsSet
    /\ customParams.VideoCodec = S_copy
    /\ customParams.AudioCodec = <<>>
    /\ HasPair(cmd, A_cv, S_copy)
    /\ ~HasPair(cmd, A_ca, S_copy)
    /\ ~canCopy

\* C12: when the caller supplied a video (audio) codec and no video (audio)
\* bitrate, the argument vector built carries no -b:v (-b:a).
C12_CustomCodecUsedBare ==
    (op = "convert" /\ cmd # NoCommand)
    => /\ (customParams.VideoCodec # <<>> /\ customParams.VideoBitrate = <<>>)
              => \A i \in DOMAIN cmd : cmd[i] # A_bv
       /\ (customParams.AudioCodec # <<>> /\ customParams.AudioBitrate = <<>>)
              => \A i \in DOMAIN cmd : cmd[i] # A_ba

(***************************************************************************)
(* Properties of the command builders (checked under SpecBuild).           *)
(***************************************************************************)
\* The flag and the value when the value is non-empty, nothing otherwise.
Optional(flag, value) == IF value # <<>> THEN <<flag, value>> ELSE <<>>

\* The argument vector in the order claimed.
ClaimedVector(a) ==
    <<A_ffmpeg, A_i, a.input>>
    \o (IF a.videoCodec = S_copy THEN <<A_cv, S_copy>>
        ELSE <<A_cv, a.videoCodec>> \o Optional(A_bv, a.customParams.VideoBitrate))
    \o (IF a.audioCodec = S_copy THEN <<A_ca, S_copy>>
        ELSE <<A_ca, a.audioCodec>> \o Optional(A_ba, a.customParams.AudioBitrate))
    \o Optional(A_s, a.customParams.Resolution)
    \o Optional(A_r, a.customParams.Framerate)
    \o <<A_y, a.output>>

\* The flags, the literals and the single values given to the builder.
SingleValues(a) ==
    {A_ffmpeg, A_i, A_cv, A_bv, A_ca, A_ba, A_s, A_r, A_y, S_copy,
     a.input, a.output, a.videoCodec, a.audioCodec,
     a.customParams.VideoBitrate, a.customParams.AudioBitrate,
     a.customParams.Resolution, a.customParams.Framerate}

\* C13: every command the conversion builder produces is ffmpeg, -i, input,
\* then -c:v copy or -c:v codec with -b:v bitrate when the video bitrate is
\* non-empty, then -c:a copy or -c:a codec with -b:a bitrate when the audio
\* bitrate is non-empty, then -s resolution exactly when the resolution is
\* non-empty, -r framerate exactly when the framerate is non-empty, and
\* finally -y, output; no other element, and each element a single value.
C13_OrderedVector ==
    (bcall = "buildFFmpegCommandWithCustomParams" /\ bret # NoCommand)
    => /\ bret = ClaimedVector(bargs)
       /\ \A i \in DOMAIN bret : bret[i] \in SingleValues(bargs)

C13_Witness ==
    /\ bcall = "buildFFmpegCommandWithCustomParams"
    /\ bargs.videoCodec = S_copy
    /\ bargs.customParams.VideoBitrate # <<>>
    /\ bargs.audioCodec = S_pcm_s16le
    /\ bargs.customParams.AudioBitrate = <<>>
    /\ bargs.customParams.Resolution # <<>>
    /\ bargs.customParams.Framerate = <<>>
    /\ bret = <<A_ffmpeg, A_i, bargs.input, A_cv, S_copy, A_ca, S_pcm_s16le,
                A_s, bargs.customParams.Resolution, A_y, bargs.output>>

\* The values handed to the extraction builder that fail their validator.
ExtractionInsertFails(a) ==
    \/ ValidateFilePath(a.params.InputFile) # "ok"
    \/ ValidateFilePath(a.params.OutputFile) # "ok"
    \/ ValidateCodec(a.codec, "audio") # "ok"
    \/ ValidateBitrate(a.params.Bitrate) # "ok"
    \/ validateSampleRate(a.params.SampleRate) # "ok"
    \/ validateChannels(a.params.Channels) # "ok"

\* C15: the extraction command builder re-validates each value before it
\* inserts it: called with a path, codec, bitrate, sample rate or channel
\* value that fails validation it yields no command.
C15_ExtractionBuilderRevalidates ==
    (bcall = "buildAudioExtractionCommandSecure" /\ ExtractionInsertFails(bargs))
    => bret = NoCommand

(***************************************************************************)
(* Properties of the operations (checked under Spec).                      *)
(***************************************************************************)
Started(name) == \E i \in DOMAIN procs : procs[i] = name

CountOf(seq, x) == Cardinality({i \in DOMAIN seq : seq[i] = x})

\* A value the conversion builder is about to insert fails its validator.
InsertFails(input, output, vCodec, aCodec, params) ==
    \/ ValidateFilePath(input) # "ok"
    \/ ValidateFilePath(output) # "ok"
    \/ vCodec # S_copy /\ ValidateCodec(vCodec, "video") # "ok"
    \/ vCodec # S_copy /\ params.VideoBitrate # <<>>
          /\ ValidateBitrate(params.VideoBitrate) # "ok"
    \/ aCodec # S_copy /\ ValidateCodec(aCodec, "audio") # "ok"
    \/ aCodec # S_copy /\ params.AudioBitrate # <<>>
          /\ ValidateBitrate(params.AudioBitrate) # "ok"
    \/ params.Resolution # <<>> /\ ValidateResolution(params.Resolution) # "ok"
    \/ params.Framerate # <<>> /\ ValidateFramerate(params.Framerate) # "ok"

ConversionRejected ==
    \/ ValidateFilePath(inputPath) # "ok"
    \/ ValidateFilePath(outputPath) # "ok"
    \/ ValidateFileFormat(outputPath) # "ok"
    \/ customParams.VideoCodec # <<>> /\ ValidateCodec(customParams.VideoCodec, "video") # "ok"
    \/ customParams.AudioCodec # <<>> /\ ValidateCodec(customParams.AudioCodec, "audio") # "ok"
    \/ ValidateBitrate(customParams.VideoBitrate) # "ok"
    \/ ValidateBitrate(customParams.AudioBitrate) # "ok"
    \/ ValidateResolution(customParams.Resolution) # "ok"
    \/ ValidateFramerate(customParams.Framerate) # "ok"

ExtractionRejected ==
    \/ ValidateFilePath(audioParams.InputFile) # "ok"
    \/ ValidateFilePath(audioParams.OutputFile) # "ok"
    \/ ValidateFileFormat(audioParams.OutputFile) # "ok"
    \/ audioParams.Codec # <<>> /\ ValidateCodec(audioParams.Codec, "audio") # "ok"
    \/ ValidateBitrate(audioParams.Bitrate) # "ok"
    \/ validateSampleRate(audioParams.SampleRate) # "ok"
    \/ validateChannels(audioParams.Channels) # "ok"

\* C16: in a conversion, whatever customParamsSet is, and in an extraction,
\* when a supplied path, output format, codec, bitrate, resolution,
\* framerate, sample rate or channel value is rejected by its validator, no
\* prober and no encoder is ever started and the operation returns an error.
C16_ValidationBeforeSpawn ==
    ((op = "convert" /\ ConversionRejected) \/ (op = "extract" /\ ExtractionRejected))
    => /\ procs = <<>>
       /\ pc = "done" => result \notin {"ok", "pending"}

\* C17: whatever the operation, the prober is never run on an input path
\* with a directory-traversal segment, and the operation on such a path
\* ends with an error.
C17_ProbeOnlyValidatedPath ==
    (op # "none" /\ HasDotDotSegment(inputPath))
    => /\ ~Started("ffprobe")
       /\ pc = "done" => result # "ok"

\* The report has a format section and numbers for duration, size and bitrate.
WellFormed(report) ==
    /\ report.text = "json"
    /\ report.format.present
    /\ DecimalRegex(report.format.duration)
    /\ AllDigits(report.format.size)
    /\ AllDigits(report.format.bit_rate)

\* C18: a MediaInfo is returned only for a well-formed report: when the file
\* is missing, the prober exits non-zero or its output is empty, not JSON,
\* without format section or with a non-numeric duration, size or bitrate,
\* the operation ends with the analysis error and holds no MediaInfo.
C18_NoPartialMediaInfo ==
    /\ inputInfo # NoMedia => WellFormed(probeOut)
    /\ (probeOut # NoReport /\ ~WellFormed(probeOut))
          => pc = "done" /\ result = "analyze_failed"
    /\ (\E i \in DOMAIN exits : procs[i] = "ffprobe" /\ exits[i] # 0)
          => inputInfo = NoMedia /\ pc = "done" /\ result = "analyze_failed"

\* C19: in a conversion or an extraction the prober is started at most once
\* and the encoder at most once, the encoder only after the prober ended
\* with exit status zero, at most one child is alive at any time, and after
\* a failure of a child or of its start no further child is started and the
\* operation has returned that failure.
C19_NoRetries ==
    op \in {"convert", "extract"}
    => /\ CountOf(procs, "ffprobe") <= 1 /\ CountOf(procs, "ffmpeg") <= 1
       /\ Started("ffmpeg")
             => procs = <<"ffprobe", "ffmpeg">> /\ Len(exits) >= 1 /\ exits[1] = 0
       /\ Cardinality(alive) <= 1
       /\ Len(exits) + Cardinality(alive) = Len(procs)
       /\ \A i \in DOMAIN exits :
              exits[i] # 0
              => /\ i = Len(procs) /\ alive = {}
                 /\ pc = "done"
                 /\ result = IF procs[i] = "ffprobe" THEN "analyze_failed"
                             ELSE "execution_failed"
       /\ result \in {"analyze_failed", "pipe_failed", "start_failed"}
             => pc = "done" /\ ~Started("ffmpeg") /\ alive = {}

C19_Witness ==
    /\ op = "extract"
    /\ pc = "done"
    /\ procs = <<"ffprobe", "ffmpeg">>
    /\ exits = <<0, 1>>
    /\ result = "execution_failed"
    /\ encoderArgs # cmd

\* C24: when the encoder exits non-zero, the error the operation returns
\* carries the captured diagnostic output of the encoder, in pass-through
\* mode, in tracked mode and in the quiet audio extraction.
C24_ErrorCarriesOutput ==
    (pc = "done" /\ result = "execution_failed") => errOutput = "captured"

\* The bitrates of the presets as the documentation lists them; any other
\* preset name has those of medium.
TableVideoBitrate ==
    CASE preset = "low" -> <<"1","M">> [] preset = "high" -> <<"4","M">> [] OTHER -> <<"2","M">>

TableAudioBitrate ==
    CASE preset = "low" -> <<"1","2","8","k">> [] preset = "high" -> <<"2","5","6","k">>
      [] OTHER -> <<"1","9","2","k">>

ReportedOfType(codecType) ==
    SelectSeq(reportStreams(probeOut), LAMBDA s : s.codec_type = codecType)

\* C28: VideoStreams is the subsequence of the report's video streams and
\* AudioStreams that of its audio streams, in report order, any other
\* stream left out; each stream keeps its index and its codec, a missing
\* bitrate is 0 and a missing language tag the empty string.
C28_StreamsInReportOrder ==
    (inputInfo # NoMedia)
    => LET video == ReportedOfType("video")
           audio == ReportedOfType("audio")
       IN /\ Len(inputInfo.VideoStreams) = Len(video)
          /\ Len(inputInfo.AudioStreams) = Len(audio)
          /\ \A k \in DOMAIN video :
                 /\ inputInfo.VideoStreams[k].Index = video[k].index
                 /\ inputInfo.VideoStreams[k].Codec = video[k].codec_name
                 /\ video[k].bit_rate = <<>> => inputInfo.VideoStreams[k].Bitrate = 0
                 /\ AllDigits(video[k].bit_rate)
                        => inputInfo.VideoStreams[k].Bitrate = Atoi(video[k].bit_rate)
          /\ \A k \in DOMAIN audio :
                 /\ inputInfo.AudioStreams[k].Index = audio[k].index
                 /\ inputInfo.AudioStreams[k].Codec = audio[k].codec_name
                 /\ audio[k].bit_rate = <<>> => inputInfo.AudioStreams[k].Bitrate = 0
                 /\ AllDigits(audio[k].bit_rate)
                        => inputInfo.AudioStreams[k].Bitrate = Atoi(audio[k].bit_rate)
                 /\ inputInfo.AudioStreams[k].Language = audio[k].language

\* The report with an audio, a video and an audio stream: the audio streams
\* 0 and 2 in that order, the first without language and with bitrate 0.
C28_Witness ==
    /\ inputInfo # NoMedia
    /\ Len(reportStreams(probeOut)) = 3
    /\ Len(inputInfo.AudioStreams) = 2 /\ Len(inputInfo.VideoStreams) = 1
    /\ inputInfo.AudioStreams[1].Index = 0 /\ inputInfo.AudioStreams[2].Index = 2
    /\ inputInfo.AudioStreams[1].Language = <<>> /\ inputInfo.AudioStreams[1].Bitrate = 0
    /\ inputInfo.AudioStreams[2].Bitrate = 64
    /\ inputInfo.VideoStreams[1].Index = 1

\* The conversion has selected its codecs (step 6) and filled in the
\* bitrates (step 7).
Selected == op = "convert" /\ (pc \in {"build", "execute", "running"} \/ cmd # NoCommand)

\* C30: when customParamsSet is true exactly when a custom field is not
\* empty, the codecs the selector returned are whitelisted or copy and the
\* bitrates handed to the builder match the bitrate grammar, so the builder
\* returns a command and the conversion never returns the build error.
C30_RecheckNeverFails ==
    (op = "convert" /\ customParamsSet = HasCustomField(customParams))
    => /\ result # "build_failed"
       /\ Selected
          => /\ videoCodec \in AllowedVideoCodecs \cup {S_copy}
             /\ audioCodec \in AllowedAudioCodecs \cup {S_copy}
             /\ ValidateBitrate(secureCustomParams.VideoBitrate) = "ok"
             /\ ValidateBitrate(secureCustomParams.AudioBitrate) = "ok"
             /\ secureCustomParams.VideoBitrate # <<>>
             /\ secureCustomParams.AudioBitrate # <<>>
       /\ pc \in {"execute", "running"} => cmd # NoCommand

\* A conversion with a custom codec and a custom resolution whose command
\* was built, the audio codec and both bitrates coming from the pipeline.
C30_Witness ==
    /\ op = "convert" /\ customParamsSet
    /\ customParams.VideoCodec = S_libx264 /\ customParams.AudioCodec = <<>>
    /\ customParams.VideoBitrate = <<>> /\ customParams.AudioBitrate = <<>>
    /\ customParams.Resolution = <<"6","4","0","x","4","8","0">>
    /\ pc = "execute" /\ cmd # NoCommand
    /\ HasPair(cmd, A_s, <<"6","4","0","x","4","8","0">>)

(***************************************************************************)
(* Properties of the tracked mode (checked under SpecTrack).               *)
(***************************************************************************)
\* C20: under every interleaving, when executeFFmpegWithProgress returns the
\* clear step has been performed if a progress line was rendered, and no
\* progress line is rendered after the clear step or after the return.
C20_ClearedBeforeFinal ==
    /\ \A i \in DOMAIN trace :
           (trace[i] = "return" /\ \E j \in 1..(i - 1) : trace[j] = "progress")
           => \E k \in 1..(i - 1) : trace[k] = "clear"
    /\ \A i \in DOMAIN trace : \A j \in DOMAIN trace :
           (i < j /\ trace[i] \in {"clear", "return"}) => trace[j] # "progress"

\* C21: under fair scheduling of the encoder, the scanner and the main flow,
\* a tracked run always terminates: executeFFmpegWithProgress returns,
\* whatever lines the encoder writes.
C21_TrackedTerminates == <>(tpc \in {"returned", "finished"})

C22_PercentAndBarInRange ==
    rcall = "renderProgress"
    => /\ rret.outcome = "rendered"
       /\ rret.percent.kind = "num"
       /\ 0 <= rret.percent.n /\ rret.percent.n <= rret.percent.d
       /\ rret.cells = 30
       /\ rret.filled \in 0..30
       /\ rret.filled = (rret.percent.n * 30) \div rret.percent.d

\* The seconds an ETA text stands for, and the step between two texts.
EtaSeconds(eta) ==
    CASE eta.form = "s" -> eta.a
      [] eta.form = "ms" -> eta.a * 60 + eta.b
      [] OTHER -> eta.a * 3600 + eta.b * 60

EtaStep(eta) == IF eta.form = "hm" THEN 60 ELSE 1

EtaCase == rret.speed > 0 /\ currentSeconds(rline) < rtotal

====
